---------------------------- MODULE Spec2Model ----------------------------
(***************************************************************************)
(* Verification model of scripts/collect.py (design-system collector).     *)
(*                                                                         *)
(* The module holds one specification per part of the program:             *)
(*   SplitSpec    split_counter / Counter.most_common                      *)
(*   DiffSpec     compute_state_diff                                       *)
(*   StatesSpec   collect_states, try_hover, try_focus_visible, try_active *)
(*                and build_interaction_model on the batch they leave      *)
(*   CollectSpec  collect_all, collect_page and the notes of build_results *)
(*   FontSpec     build_font_conclusion on bounded faces, probes, requests *)
(*   AccSpec      build_accessibility on a bounded batch of samples        *)
(*   ScoreSpec    score_candidate on one candidate                         *)
(*   ClusterSpec  cluster_tokens, run twice on a bounded batch of samples   *)
(*   ParseSpec    parse_color, parse_length, parse_duration, color_to_string *)
(*   DiscoverSpec collect_candidates and collect_samples on one page           *)
(*   NetSpec      NetworkLogger.attach: request and response events       *)
(***************************************************************************)
EXTENDS Integers, Sequences, FiniteSets, TLC

VARIABLES
    \* ---- split_counter ----
    counter,      \* the tally: <<[value, count], ...>> in first-seen (insertion) order
    top_n,        \* the top_n argument
    top,          \* returned top list
    outliers,     \* returned outliers list
    split_pc,     \* "call" before split_counter ran, "done" after it returned
    \* ---- compute_state_diff ----
    diff_default, \* the default snapshot: property -> value
    diff_state,   \* the alternate state: a snapshot, or a mapping with the key "error"
    diff_reason,  \* the reason string passed with it
    diff_result,  \* the returned {changed, reason}
    diff_pc,      \* "call" / "done"
    \* ---- collect_states / build_interaction_model ----
    samples,            \* the batch: <<[id, component_type, selector_path, states, diffs], ...>>
    allow_anchor_active,\* self.allow_anchor_active
    cs_i,               \* index of the sample the loop of collect_states is at
    cs_pc,              \* position in collect_states
    visited,            \* indices of the samples the loop has taken up, in order
    default_styles,     \* local default_styles
    is_navigational,    \* local is_navigational
    hover,              \* local (hover_styles, hover_reason)
    focus,              \* local (focus_styles, focus_reason)
    active,             \* local (active_styles, active_reason)
    exc,                \* text of the exception caught at line 1339
    pending_up,         \* a pointer-down was issued and no pointer-up attempted since
    nav_down_issued,    \* a pointer-down was issued on a navigational element
    bim_pc,             \* build_interaction_model: "idle", "done" or "raised"
    state_diffs,        \* state_diffs of build_interaction_model
    \* ---- collect_all / collect_page / build_results ----
    theme_modes,        \* self.theme_modes: list of theme names
    breakpoints,        \* keys of self.breakpoints in insertion order
    nav_path,           \* self.nav_path ("" when not given)
    skip_overlays,      \* self.skip_overlays
    candidates_only,    \* self.candidates_only
    selected_selector_paths, \* self.selected_selector_paths
    self_samples,       \* self.samples
    self_candidates,    \* self.candidates (their ids)
    pages,              \* self.pages: page_key -> record
    limits,             \* self.limits
    notes,              \* results["notes"]
    combo,              \* position of the loops of collect_all: [t, p, b]
    ca_pc,              \* position in collect_all
    cp_pc,              \* position in collect_page
    stage,              \* local stage of collect_page
    page_samples,       \* local samples of collect_page
    open_contexts,      \* browser contexts created and not closed
    escaped,            \* the step whose exception left collect_page ("" when none)
    failed,             \* the failures so far: <<[combo, step], ...>>
    faults_left,        \* failures the environment may still cause in this run
    \* ---- build_font_conclusion ----
    font_faces,         \* self.font_faces: the font_family of each entry ("" when missing)
    font_probes,        \* self.font_probes: the styles["font-family"] of each ("" when missing)
    font_requests,      \* len(font_requests)
    primary,            \* set(families)
    computed_families,  \* local computed_families
    fc_i,               \* position of the loop over computed_families
    verified,           \* local verified
    fc_pc,              \* position in build_font_conclusion
    fc_status,          \* returned status ("" before the return)
    \* ---- build_accessibility ----
    acc_samples,        \* self.samples: <<[id, component_type, bbox, focus_visible, color, background], ...>>
    acc_i,              \* position of the loop over self.samples
    focus_rings,        \* local focus_rings
    target_sizes,       \* local target_sizes
    contrast_samples,   \* local contrast_samples
    acc_pc,             \* "loop", "done" after the return, "raised" when an exception left the call
    \* ---- score_candidate ----
    sc_meta,            \* meta: [text, bbox]
    sc_computed,        \* computed: [font_weight, background_color, background_image]
    sc_group,           \* group
    sc_viewport_height, \* viewport_height
    sc_score,           \* returned score, in tenths
    sc_pc,              \* "call" / "done"
    \* ---- cluster_tokens ----
    cl_samples,         \* self.samples: the computed mapping of each sample
    cl_samples0,        \* self.samples as it was before the first run
    cl_run,             \* the run of cluster_tokens in progress: 1 or 2
    cl_i,               \* position of the loop over self.samples
    cl_counters,        \* the local Counters of the run
    cl_colors,          \* the local fg, bg, border, outline of each sample the run tallied
    cl_results,         \* what each finished run returned or raised
    cl_pc,              \* "loop", "done" after both runs
    \* ---- parse_color, parse_length, parse_duration, color_to_string ----
    pr_raw,             \* the argument value
    pr_root,            \* the argument root_font_size of parse_length
    pr_fn,              \* the parser that was called ("" before the call)
    pr_result,          \* what the parser returned or raised
    pr_string,          \* what color_to_string returned
    pr_pc,              \* "input", "parsed", "stringified"
    \* ---- collect_candidates, collect_samples ----
    dc_fn,              \* "collect_candidates" or "collect_samples"
    dc_page,            \* the elements of the page, in document order
    dc_g,               \* position of the loop over selector_groups
    dc_s,               \* position of the loop over selectors
    dc_elements,        \* local elements: positions in dc_page
    dc_e,               \* position of the loop over elements
    dc_collected,       \* local collected
    dc_seen,            \* local seen_keys
    dc_out,             \* local candidates / samples
    dc_pc,              \* "groups", "selectors", "elements", "done"
    \* ---- NetworkLogger ----
    nl_entries,         \* self.entries
    nl_request_map,     \* self._request_map: id(request) -> index in self.entries
    nl_attached,        \* page tags attach was called for
    nl_objects,         \* the living request objects: [request, id]
    nl_made,            \* request objects created so far
    nl_event            \* the event handled last: [kind, request]

splitVars == <<counter, top_n, top, outliers, split_pc>>
diffVars == <<diff_default, diff_state, diff_reason, diff_result, diff_pc>>

statesLocals == <<default_styles, is_navigational, hover, focus, active, exc>>
statesVars ==
    <<samples, allow_anchor_active, cs_i, cs_pc, visited, statesLocals, pending_up,
      nav_down_issued, bim_pc, state_diffs>>

collectConfig ==
    <<theme_modes, breakpoints, nav_path, skip_overlays, candidates_only,
      selected_selector_paths>>
collectVars ==
    <<collectConfig, self_samples, self_candidates, pages, limits, notes, combo, ca_pc,
      cp_pc, stage, page_samples, open_contexts, escaped, failed, faults_left>>

fontVars ==
    <<font_faces, font_probes, font_requests, primary, computed_families, fc_i, verified,
      fc_pc, fc_status>>

accVars == <<acc_samples, acc_i, focus_rings, target_sizes, contrast_samples, acc_pc>>

scoreVars == <<sc_meta, sc_computed, sc_group, sc_viewport_height, sc_score, sc_pc>>
clusterVars ==
    <<cl_samples, cl_samples0, cl_run, cl_i, cl_counters, cl_colors, cl_results, cl_pc>>
parseVars == <<pr_raw, pr_root, pr_fn, pr_result, pr_string, pr_pc>>
discoverVars ==
    <<dc_fn, dc_page, dc_g, dc_s, dc_elements, dc_e, dc_collected, dc_seen, dc_out, dc_pc>>
netVars == <<nl_entries, nl_request_map, nl_attached, nl_objects, nl_made, nl_event>>

vars == <<splitVars, diffVars, statesVars, collectVars, fontVars, accVars, scoreVars, clusterVars, parseVars, discoverVars, netVars>>

\* What an operation of one part leaves alone: the state of the other parts.
OutsideSplit == UNCHANGED <<diffVars, statesVars, collectVars, fontVars, accVars, scoreVars, clusterVars, parseVars, discoverVars, netVars>>
OutsideDiff == UNCHANGED <<splitVars, statesVars, collectVars, fontVars, accVars, scoreVars, clusterVars, parseVars, discoverVars, netVars>>
OutsideStates == UNCHANGED <<splitVars, diffVars, collectVars, fontVars, accVars, scoreVars, clusterVars, parseVars, discoverVars, netVars>>
OutsideCollect == UNCHANGED <<splitVars, diffVars, statesVars, fontVars, accVars, scoreVars, clusterVars, parseVars, discoverVars, netVars>>
OutsideFont == UNCHANGED <<splitVars, diffVars, statesVars, collectVars, accVars, scoreVars, clusterVars, parseVars, discoverVars, netVars>>
OutsideAcc == UNCHANGED <<splitVars, diffVars, statesVars, collectVars, fontVars, scoreVars, clusterVars, parseVars, discoverVars, netVars>>
OutsideScore == UNCHANGED <<splitVars, diffVars, statesVars, collectVars, fontVars, accVars, clusterVars, parseVars, discoverVars, netVars>>
OutsideCluster == UNCHANGED <<splitVars, diffVars, statesVars, collectVars, fontVars, accVars, scoreVars, parseVars, discoverVars, netVars>>
OutsideParse == UNCHANGED <<splitVars, diffVars, statesVars, collectVars, fontVars, accVars, scoreVars, clusterVars, discoverVars, netVars>>
OutsideDiscover == UNCHANGED <<splitVars, diffVars, statesVars, collectVars, fontVars, accVars, scoreVars, clusterVars, parseVars, netVars>>
OutsideNet == UNCHANGED <<splitVars, diffVars, statesVars, collectVars, fontVars, accVars, scoreVars, clusterVars, parseVars, discoverVars>>

Min(a, b) == IF a <= b THEN a ELSE b
Max(a, b) == IF a >= b THEN a ELSE b

(***************************************************************************)
(* Bounds of the model.                                                    *)
(***************************************************************************)
MaxDistinct == 4    \* distinct values of an exhaustively enumerated tally
MaxCount == 2       \* largest occurrence count of one value
MaxTopN == 5        \* largest top_n tried besides the default
WideDistinct == 20  \* distinct values of the wide tallies (more than top_n)
NumDiffProps == 2   \* properties of STATE_DIFF_PROPS a snapshot may hold
NumStyleValues == 2 \* distinct computed values a property may take
MaxSamples == 2     \* samples in the batch handed to collect_states
MaxThemes == 2      \* theme names given with --theme-modes
MaxPages == 4       \* (theme, page, breakpoint) combinations of one run
MaxFaults == 1      \* failures the environment causes in one run
MaxFaces == 2       \* entries of self.font_faces
MaxProbes == 2      \* entries of self.font_probes
MaxRequests == 1    \* font network requests
MaxAccSamples == 2  \* samples in the batch build_accessibility reads
MaxClusterSamples == 2 \* samples in the batch cluster_tokens reads
MaxPageElements == 2   \* elements of the pages that mix every kind of element
MaxNetRequests == 3    \* request objects the browser creates in one run
NumObjectIds == 2      \* values id() gives to the request objects

\* split_counter(counter, top_n=12)
DefaultTopN == 12
\* parse_length(value, root_font_size=16.0)
DefaultRootFontSize == 16
\* normalize_text(text, limit=140)
TextLimit == 140
\* max_per_group of collect_candidates and of collect_samples
CandidatesMaxPerGroup == 12
SamplesMaxPerGroup == 6

(***************************************************************************)
(* split_counter                                                           *)
(***************************************************************************)

\* All sequences over S of length 0..n.
SeqsUpTo(S, n) == UNION {[1..k -> S] : k \in 0..n}

\* Python slices items[:k] and items[k:] for k >= 0.
SliceTo(s, k) == SubSeq(s, 1, Min(k, Len(s)))
SliceFrom(s, k) == SubSeq(s, Min(k, Len(s)) + 1, Len(s))

\* Insert an item behind every item whose count is >= its own: equal counts
\* keep the order in which they were met.
RECURSIVE InsertByCount(_, _)
InsertByCountTiesFirst(sorted, item) ==
    IF sorted = <<>> THEN <<item>>
    ELSE IF Head(sorted).count > item.count
         THEN <<Head(sorted)>> \o InsertByCount(Tail(sorted), item)
         ELSE <<item>> \o sorted
InsertByCount(sorted, item) ==
    IF sorted = <<>> THEN <<item>>
    ELSE IF Head(sorted).count >= item.count
         THEN <<Head(sorted)>> \o InsertByCount(Tail(sorted), item)
         ELSE <<item>> \o sorted

\* Counter.most_common(): sorted(items, key=count, reverse=True), a stable sort
\* of the items in insertion order.
RECURSIVE SortedPrefix(_, _)
SortedPrefix(items, n) ==
    IF n = 0 THEN <<>> ELSE InsertByCount(SortedPrefix(items, n - 1), items[n])
most_common(c) == SortedPrefix(c, Len(c))

split_counter_top(c, k) ==
    LET items == most_common(c)
    IN  [i \in 1..Len(SliceTo(items, k)) |->
            [value |-> SliceTo(items, k)[i].value, count |-> SliceTo(items, k)[i].count]]
split_counter_outliers(c, k) ==
    LET items == most_common(c)
    IN  [i \in 1..Len(SliceFrom(items, k)) |->
            [value |-> SliceFrom(items, k)[i].value, count |-> SliceFrom(items, k)[i].count]]

\* Tallies: the i-th value met is labelled either i or n+1-i, so that first-seen
\* order and the order of the values themselves are different things.
CountSeqs == SeqsUpTo(1..MaxCount, MaxDistinct)
WideCountSeqs ==
    {[i \in 1..WideDistinct |-> p[((i - 1) % Len(p)) + 1]] : p \in CountSeqs \ {<<>>}}
Labelled(cs, desc) ==
    [i \in 1..Len(cs) |->
        [value |-> IF desc THEN Len(cs) + 1 - i ELSE i, count |-> cs[i]]]
Tallies == {Labelled(cs, d) : cs \in CountSeqs \cup WideCountSeqs, d \in BOOLEAN}

SplitInit ==
    /\ counter \in Tallies
    /\ top_n \in (0..MaxTopN) \cup {DefaultTopN}
    /\ top = <<>>
    /\ outliers = <<>>
    /\ split_pc = "call"

SplitCounter ==
    /\ split_pc = "call"
    /\ top' = split_counter_top(counter, top_n)
    /\ outliers' = split_counter_outliers(counter, top_n)
    /\ split_pc' = "done"
    /\ UNCHANGED <<counter, top_n>>
    /\ OutsideSplit

SplitNext == SplitCounter

SplitIdle ==
    /\ counter = <<>>
    /\ top_n = DefaultTopN
    /\ top = <<>>
    /\ outliers = <<>>
    /\ split_pc = "idle"

\* Position of a value in the tally (its first-seen rank).
FirstSeen(c, v) == CHOOSE i \in 1..Len(c) : c[i].value = v

\* C1: split_counter returns top and outliers such that top followed by
\* outliers is the whole tally, every distinct value exactly once with its
\* count, ordered by non-increasing count with equal counts in first-seen
\* order; top has min(n, k) entries and outliers max(0, n - k).
C1_SplitCounter ==
    split_pc = "done" =>
        LET all == top \o outliers
            n == Len(counter)
        IN  /\ Len(top) = Min(n, top_n)
            /\ Len(outliers) = Max(0, n - top_n)
            /\ Len(all) = n
            /\ \A i \in 1..n :
                  Cardinality({j \in 1..Len(all) : all[j].value = counter[i].value}) = 1
            /\ \A j \in 1..Len(all) :
                  \E i \in 1..n : all[j] = [value |-> counter[i].value, count |-> counter[i].count]
            /\ \A i, j \in 1..Len(all) :
                  i < j => /\ all[i].count >= all[j].count
                           /\ all[i].count = all[j].count =>
                                FirstSeen(counter, all[i].value) < FirstSeen(counter, all[j].value)

\* A tally of 20 distinct values with ties, split at 12: 12 top and 8 outliers.
C1_Witness ==
    /\ split_pc = "done"
    /\ Len(counter) = 20
    /\ top_n = 12
    /\ Len(top) = 12
    /\ Len(outliers) = 8
    /\ \E i, j \in 1..Len(counter) : i < j /\ counter[i].count < counter[j].count
    /\ top[1].count = top[2].count
    /\ counter[1].value > counter[2].value

(***************************************************************************)
(* compute_state_diff                                                      *)
(***************************************************************************)
STATE_DIFF_PROPS ==
    <<"color", "background-color", "border-color", "outline-color", "outline-width",
      "outline-offset", "box-shadow", "opacity", "transform">>

StyleValueList == <<"rgb(0,0,0)", "rgb(255,255,255)", "rgb(255,0,0)", "none", "1">>

DiffProps == {STATE_DIFF_PROPS[i] : i \in 1..Min(NumDiffProps, Len(STATE_DIFF_PROPS))}
StyleValues == {StyleValueList[i] : i \in 1..Min(NumStyleValues, Len(StyleValueList))}

\* The empty dict.
EmptyDict == [p \in {} |-> ""]

\* Every dict with keys among K and values in V.
Dicts(K, V) == UNION {[d -> V] : d \in SUBSET K}

\* The markers try_hover, try_focus_visible, try_active and collect_states put
\* under the key "error".
ErrorMarkers ==
    {"hover failed", "focus failed", "active failed", "active skipped for navigational element"}

\* d with the key "error" set to m.
WithError(d, m) == [p \in DOMAIN d \cup {"error"} |-> IF p = "error" THEN m ELSE d[p]]

\* Reason strings: none, an exception text, the navigational skip.
Reasons == {"", "Timeout 30000ms exceeded", "skipped navigational element"}

\* compute_state_diff(default, state, reason); every state the callers pass is a
\* dict, so the isinstance test never decides.
compute_state_diff_Swapped(default, state, reason) ==
    IF "error" \in DOMAIN state
    THEN [changed |-> EmptyDict, reason |-> IF reason # "" THEN reason ELSE "state failed"]
    ELSE [changed |->
            [p \in {q \in DOMAIN state : q \in DOMAIN default /\ state[q] # default[q]} |->
                <<state[p], default[p]>>],
          reason |-> ""]
compute_state_diff_NoFallback(default, state, reason) ==
    IF "error" \in DOMAIN state
    THEN [changed |-> EmptyDict, reason |-> reason]
    ELSE [changed |->
            [p \in {q \in DOMAIN state : q \in DOMAIN default /\ state[q] # default[q]} |->
                <<default[p], state[p]>>],
          reason |-> ""]
compute_state_diff(default, state, reason) ==
    IF "error" \in DOMAIN state
    THEN [changed |-> EmptyDict, reason |-> IF reason # "" THEN reason ELSE "state failed"]
    ELSE [changed |->
            [p \in {q \in DOMAIN state : q \in DOMAIN default /\ state[q] # default[q]} |->
                <<default[p], state[p]>>],
          reason |-> ""]

DiffInit ==
    /\ diff_default \in Dicts(DiffProps, StyleValues)
    /\ diff_state \in Dicts(DiffProps, StyleValues)
            \cup {WithError(d, m) : d \in Dicts(DiffProps, StyleValues), m \in ErrorMarkers}
    /\ diff_reason \in Reasons
    /\ diff_result = [changed |-> EmptyDict, reason |-> ""]
    /\ diff_pc = "call"

ComputeStateDiff ==
    /\ diff_pc = "call"
    /\ diff_result' = compute_state_diff(diff_default, diff_state, diff_reason)
    /\ diff_pc' = "done"
    /\ UNCHANGED <<diff_default, diff_state, diff_reason>>
    /\ OutsideDiff

DiffNext == ComputeStateDiff

DiffIdle ==
    /\ diff_default = EmptyDict
    /\ diff_state = EmptyDict
    /\ diff_reason = ""
    /\ diff_result = [changed |-> EmptyDict, reason |-> ""]
    /\ diff_pc = "idle"

\* C2: for a default snapshot D and an alternate snapshot S captured without
\* error, compute_state_diff returns reason "" and changed = exactly the
\* properties present in both D and S whose values differ, each mapped to
\* [D[p], S[p]]; properties absent from D are ignored, identical snapshots
\* give changed == {}.
C2_StateDiff ==
    (diff_pc = "done" /\ "error" \notin DOMAIN diff_state /\ diff_reason = "") =>
        /\ diff_result.reason = ""
        /\ \A p \in DOMAIN diff_result.changed :
              /\ p \in DOMAIN diff_default
              /\ p \in DOMAIN diff_state
              /\ diff_state[p] # diff_default[p]
              /\ diff_result.changed[p] = <<diff_default[p], diff_state[p]>>
        /\ \A p \in DOMAIN diff_default \cap DOMAIN diff_state :
              diff_state[p] # diff_default[p] => p \in DOMAIN diff_result.changed
        /\ diff_state = diff_default => diff_result.changed = EmptyDict

\* D = {color: rgb(0,0,0)}, S = {color: rgb(255,255,255)} plus a property that
\* D lacks: changed == {color: [rgb(0,0,0), rgb(255,255,255)]}.
C2_Witness ==
    /\ diff_pc = "done"
    /\ diff_reason = ""
    /\ diff_default = [p \in {"color"} |-> "rgb(0,0,0)"]
    /\ DOMAIN diff_state = {"color", "background-color"}
    /\ diff_state["color"] = "rgb(255,255,255)"
    /\ diff_result = [changed |-> [p \in {"color"} |-> <<"rgb(0,0,0)", "rgb(255,255,255)">>],
                      reason |-> ""]

\* C3 as stated: if the alternate state carries the error sentinel or the
\* reason string passed with it is non-empty, the result is
\* {changed: {}, reason: <the reason passed>}.
C3_AsStated ==
    (diff_pc = "done" /\ ("error" \in DOMAIN diff_state \/ diff_reason # "")) =>
        diff_result = [changed |-> EmptyDict, reason |-> diff_reason]

\* C3 amended: if the alternate state carries the error sentinel, no property
\* diff is emitted and the reason returned is the reason passed when that is
\* non-empty and "state failed" when it is empty; a reason passed with a state
\* that carries no sentinel is not returned (the reason is "").
C3_ErrorSentinel ==
    diff_pc = "done" =>
        /\ "error" \in DOMAIN diff_state =>
              /\ diff_result.changed = EmptyDict
              /\ diff_reason # "" => diff_result.reason = diff_reason
              /\ diff_reason = "" => diff_result.reason = "state failed"
        /\ "error" \notin DOMAIN diff_state => diff_result.reason = ""

\* A failed capture whose exception text is empty: reason "state failed".
C3_Witness ==
    /\ diff_pc = "done"
    /\ "error" \in DOMAIN diff_state
    /\ DOMAIN diff_state # {"error"}
    /\ diff_default # EmptyDict
    /\ diff_reason = ""
    /\ diff_result = [changed |-> EmptyDict, reason |-> "state failed"]

(***************************************************************************)
(* collect_states, try_hover, try_focus_visible, try_active                *)
(***************************************************************************)
\* Python values of the two types met as values of sample["diffs"].
PyStr(t) == [type |-> "str", val |-> t]
PyDict(d) == [type |-> "dict", val |-> d]

\* Python truthiness of such a value ("if not diff").
Truthy(v) == IF v.type = "str" THEN v.val # "" ELSE DOMAIN v.val # {}

\* dict.update
Update(d, e) == [k \in DOMAIN d \cup DOMAIN e |-> IF k \in DOMAIN e THEN e[k] ELSE d[k]]

\* {"error": m}
ErrorDict(m) == [k \in {"error"} |-> m]

\* str(exc) of an exception raised by a browser operation.
ExcTexts == {"Timeout 30000ms exceeded"}

\* What computed_style(el, STATE_DIFF_PROPS) reads: every property is present.
\* The default read is the base snapshot; a read in another state is the same
\* snapshot or one that differs from it.
BaseSnapshot == [p \in DiffProps |-> StyleValueList[1]]
ChangedSnapshot ==
    [p \in DiffProps |-> IF p = STATE_DIFF_PROPS[1] THEN StyleValueList[2] ELSE StyleValueList[1]]
AltSnapshots == {BaseSnapshot, ChangedSnapshot}

\* Component types whose states are captured (line 1287).
InteractiveTypes == {"button", "nav_link", "input", "chip", "card"}

\* Samples as collect_samples leaves them: states and diffs empty.
SampleKinds ==
    {[component_type |-> "button", selector_path |-> "#cta"],
     [component_type |-> "typography", selector_path |-> "h1:nth-of-type(1)"],
     [component_type |-> "button", selector_path |-> ""]}
NewSample(i, kind) ==
    [id |-> i, component_type |-> kind.component_type, selector_path |-> kind.selector_path,
     states |-> EmptyDict, diffs |-> EmptyDict]
Batches ==
    {[i \in 1..Len(ks) |-> NewSample(i, ks[i])] : ks \in SeqsUpTo(SampleKinds, MaxSamples)}

\* A (styles, reason) pair not yet assigned.
NoCapture == [styles |-> EmptyDict, reason |-> ""]

StatesInit ==
    /\ samples \in Batches
    /\ allow_anchor_active \in BOOLEAN
    /\ cs_i = 1
    /\ cs_pc = "loop"
    /\ visited = <<>>
    /\ default_styles = EmptyDict
    /\ is_navigational = FALSE
    /\ hover = NoCapture
    /\ focus = NoCapture
    /\ active = NoCapture
    /\ exc = ""
    /\ pending_up = FALSE
    /\ nav_down_issued = FALSE
    /\ bim_pc = "idle"
    /\ state_diffs = <<>>

StatesIdle ==
    /\ samples = <<>>
    /\ allow_anchor_active = FALSE
    /\ cs_i = 1
    /\ cs_pc = "idle"
    /\ visited = <<>>
    /\ default_styles = EmptyDict
    /\ is_navigational = FALSE
    /\ hover = NoCapture
    /\ focus = NoCapture
    /\ active = NoCapture
    /\ exc = ""
    /\ pending_up = FALSE
    /\ nav_down_issued = FALSE
    /\ bim_pc = "idle"
    /\ state_diffs = <<>>

\* An exception raised inside the try of line 1292 is caught at line 1339.
Raise(e) == exc' = e /\ cs_pc' = "except"

\* if sample.get("component_type") not in interactive_types: continue
\* if not sample.get("selector_path"): continue
PassedOver_TypeOnly(sample) == sample.component_type \notin InteractiveTypes
PassedOver(sample) ==
    \/ sample.component_type \notin InteractiveTypes
    \/ sample.selector_path = ""

\* for sample in samples: the two filters of lines 1287-1291. The locals of the
\* last iteration are dead here; they are cleared.
NextSample ==
    /\ cs_pc = "loop"
    /\ cs_i <= Len(samples)
    /\ visited' = Append(visited, cs_i)
    /\ default_styles' = EmptyDict
    /\ is_navigational' = FALSE
    /\ hover' = NoCapture
    /\ focus' = NoCapture
    /\ active' = NoCapture
    /\ exc' = ""
    /\ IF PassedOver(samples[cs_i])
       THEN cs_i' = cs_i + 1 /\ cs_pc' = "loop"
       ELSE cs_i' = cs_i /\ cs_pc' = "query"
    /\ UNCHANGED <<samples, allow_anchor_active, pending_up, nav_down_issued, bim_pc, state_diffs>>
    /\ OutsideStates

\* The loop is exhausted: collect_states returns.
LoopEnd ==
    /\ cs_pc = "loop"
    /\ cs_i > Len(samples)
    /\ cs_pc' = "returned"
    /\ UNCHANGED <<samples, allow_anchor_active, cs_i, visited, statesLocals, pending_up,
                   nav_down_issued, bim_pc, state_diffs>>
    /\ OutsideStates

\* el = await page.query_selector(selector_path)
QuerySelector ==
    /\ cs_pc = "query"
    /\ \/ cs_pc' = "scroll" /\ UNCHANGED exc
       \/ cs_pc' = "find_by_text" /\ UNCHANGED exc
       \/ \E e \in ExcTexts : Raise(e)
    /\ UNCHANGED <<samples, allow_anchor_active, cs_i, visited, default_styles, is_navigational,
                   hover, focus, active, pending_up, nav_down_issued, bim_pc, state_diffs>>
    /\ OutsideStates

\* el = await self.find_element_by_text_role(page, sample); element_not_found
FindElementByTextRole ==
    /\ cs_pc = "find_by_text"
    /\ \/ cs_pc' = "scroll" /\ UNCHANGED <<exc, samples, cs_i>>
       \/ /\ samples' = [samples EXCEPT ![cs_i].diffs = ErrorDict(PyStr("element_not_found"))]
          /\ cs_i' = cs_i + 1
          /\ cs_pc' = "loop"
          /\ UNCHANGED exc
       \/ (\E e \in ExcTexts : Raise(e)) /\ UNCHANGED <<samples, cs_i>>
    /\ UNCHANGED <<allow_anchor_active, visited, default_styles, is_navigational,
                   hover, focus, active, pending_up, nav_down_issued, bim_pc, state_diffs>>
    /\ OutsideStates

\* await el.scroll_into_view_if_needed(), its exception swallowed
ScrollIntoView ==
    /\ cs_pc = "scroll"
    /\ \E swallowed \in BOOLEAN : cs_pc' = "default"
    /\ UNCHANGED <<samples, allow_anchor_active, cs_i, visited, statesLocals, pending_up,
                   nav_down_issued, bim_pc, state_diffs>>
    /\ OutsideStates

\* default_styles = await self.computed_style(...); sample["states"]["default"] = ...
ReadDefault ==
    /\ cs_pc = "default"
    /\ \/ /\ default_styles' = BaseSnapshot
          /\ samples' = [samples EXCEPT ![cs_i].states =
                            Update(@, [k \in {"default"} |-> BaseSnapshot])]
          /\ cs_pc' = "nav_test"
          /\ UNCHANGED exc
       \/ (\E e \in ExcTexts : Raise(e)) /\ UNCHANGED <<default_styles, samples>>
    /\ UNCHANGED <<allow_anchor_active, cs_i, visited, is_navigational,
                   hover, focus, active, pending_up, nav_down_issued, bim_pc, state_diffs>>
    /\ OutsideStates

\* is_navigational = await el.evaluate(...)
NavigationalTest ==
    /\ cs_pc = "nav_test"
    /\ \/ (\E nav \in BOOLEAN : is_navigational' = nav) /\ cs_pc' = "hover" /\ UNCHANGED exc
       \/ (\E e \in ExcTexts : Raise(e)) /\ UNCHANGED is_navigational
    /\ UNCHANGED <<samples, allow_anchor_active, cs_i, visited, default_styles,
                   hover, focus, active, pending_up, nav_down_issued, bim_pc, state_diffs>>
    /\ OutsideStates

\* try_hover: el.hover() and the style read, or ({"error": "hover failed"}, str(exc))
TryHover ==
    /\ cs_pc = "hover"
    /\ \/ \E snap \in AltSnapshots : hover' = [styles |-> snap, reason |-> ""]
       \/ \E e \in ExcTexts : hover' = [styles |-> ErrorDict("hover failed"), reason |-> e]
    /\ cs_pc' = "focus"
    /\ UNCHANGED <<samples, allow_anchor_active, cs_i, visited, default_styles, is_navigational,
                   focus, active, exc, pending_up, nav_down_issued, bim_pc, state_diffs>>
    /\ OutsideStates

\* try_focus_visible: Tab, el.focus() and the style read, or the failure pair
TryFocusVisible ==
    /\ cs_pc = "focus"
    /\ \/ \E snap \in AltSnapshots : focus' = [styles |-> snap, reason |-> ""]
       \/ \E e \in ExcTexts : focus' = [styles |-> ErrorDict("focus failed"), reason |-> e]
    /\ cs_pc' = "active"
    /\ UNCHANGED <<samples, allow_anchor_active, cs_i, visited, default_styles, is_navigational,
                   hover, active, exc, pending_up, nav_down_issued, bim_pc, state_diffs>>
    /\ OutsideStates

\* if is_navigational and not self.allow_anchor_active
ActiveSkipped_FlagInverted(nav, allow) == nav /\ allow
ActiveSkipped(nav, allow) == nav /\ ~allow

\* line 1323: the active state of a navigational element is not captured
SkipActive ==
    /\ cs_pc = "active"
    /\ ActiveSkipped(is_navigational, allow_anchor_active)
    /\ active' = [styles |-> ErrorDict("active skipped for navigational element"),
                  reason |-> "skipped navigational element"]
    /\ cs_pc' = "record"
    /\ UNCHANGED <<samples, allow_anchor_active, cs_i, visited, default_styles, is_navigational,
                   hover, focus, exc, pending_up, nav_down_issued, bim_pc, state_diffs>>
    /\ OutsideStates

\* try_active up to page.mouse.down(): the bounding box is missing or one of
\* bounding_box, mouse.move, mouse.down raises, or the pointer goes down.
TryActive_PointerDown ==
    /\ cs_pc = "active"
    /\ ~ActiveSkipped(is_navigational, allow_anchor_active)
    /\ \/ /\ \E r \in ExcTexts \cup {"no bounding box"} :
                active' = [styles |-> ErrorDict("active failed"), reason |-> r]
          /\ cs_pc' = "active_finally"
          /\ UNCHANGED <<pending_up, nav_down_issued>>
       \/ /\ pending_up' = TRUE
          /\ nav_down_issued' = (nav_down_issued \/ is_navigational)
          /\ cs_pc' = "active_style"
          /\ UNCHANGED active
    /\ UNCHANGED <<samples, allow_anchor_active, cs_i, visited, default_styles, is_navigational,
                   hover, focus, exc, bim_pc, state_diffs>>
    /\ OutsideStates

\* try_active: the style read with the pointer down
TryActive_Style ==
    /\ cs_pc = "active_style"
    /\ \/ \E snap \in AltSnapshots : active' = [styles |-> snap, reason |-> ""]
       \/ \E e \in ExcTexts : active' = [styles |-> ErrorDict("active failed"), reason |-> e]
    /\ cs_pc' = "active_finally"
    /\ UNCHANGED <<samples, allow_anchor_active, cs_i, visited, default_styles, is_navigational,
                   hover, focus, exc, pending_up, nav_down_issued, bim_pc, state_diffs>>
    /\ OutsideStates

\* finally: try: await page.mouse.up() / except Exception: pass; try_active
\* then returns what it captured to line 1326.
MouseUp_Propagated(fails) == IF fails THEN "except" ELSE "record"
MouseUp(fails) == "record"

\* try_active, finally: page.mouse.up() is attempted, its exception swallowed
TryActive_Finally ==
    /\ cs_pc = "active_finally"
    /\ \E swallowed \in BOOLEAN :
          /\ pending_up' = FALSE
          /\ cs_pc' = MouseUp(swallowed)
    /\ UNCHANGED <<samples, allow_anchor_active, cs_i, visited, statesLocals,
                   nav_down_issued, bim_pc, state_diffs>>
    /\ OutsideStates

\* lines 1327-1338: sample["states"].update(states); sample["diffs"] = {...}
RecordDiffs ==
    /\ cs_pc = "record"
    /\ samples' =
         [samples EXCEPT
            ![cs_i].states =
                Update(@, [k \in {"hover", "focus_visible", "active"} |->
                             CASE k = "hover" -> hover.styles
                               [] k = "focus_visible" -> focus.styles
                               [] OTHER -> active.styles]),
            ![cs_i].diffs =
                [k \in {"hover", "focus_visible", "active"} |->
                   CASE k = "hover" ->
                          PyDict(compute_state_diff(default_styles, hover.styles, hover.reason))
                     [] k = "focus_visible" ->
                          PyDict(compute_state_diff(default_styles, focus.styles, focus.reason))
                     [] OTHER ->
                          PyDict(compute_state_diff(default_styles, active.styles, active.reason))]]
    /\ cs_i' = cs_i + 1
    /\ cs_pc' = "loop"
    /\ UNCHANGED <<allow_anchor_active, visited, statesLocals, pending_up, nav_down_issued,
                   bim_pc, state_diffs>>
    /\ OutsideStates

\* lines 1341-1346: when the page was navigated away, page.goto and the wait
\* run inside their own try/except, which swallows what they raise.
Recovery_Unguarded(navigated, goto_fails) ==
    IF navigated /\ goto_fails THEN "raised" ELSE "done"
Recovery(navigated, goto_fails) ==
    IF navigated /\ goto_fails THEN "swallowed" ELSE "done"

\* except Exception as exc: sample["diffs"] = {"error": str(exc)} and the recovery
HandleException ==
    /\ cs_pc = "except"
    /\ samples' = [samples EXCEPT ![cs_i].diffs = ErrorDict(PyStr(exc))]
    /\ \E navigated, goto_fails \in BOOLEAN :
          IF Recovery(navigated, goto_fails) = "raised"
          THEN cs_pc' = "raised" /\ cs_i' = cs_i
          ELSE cs_pc' = "loop" /\ cs_i' = cs_i + 1
    /\ UNCHANGED <<allow_anchor_active, visited, statesLocals, pending_up, nav_down_issued,
                   bim_pc, state_diffs>>
    /\ OutsideStates

(***************************************************************************)
(* build_interaction_model                                                 *)
(***************************************************************************)
\* The keys of sample["diffs"] in insertion order.
DiffKeyOrder == <<"error", "hover", "focus_visible", "active">>

\* diff.get(...) on a str raises AttributeError (lines 1749-1750); a falsy diff
\* is passed over (line 1743), a sample without states too (line 1732).
SampleRaises(s) ==
    /\ DOMAIN s.states # {}
    /\ \E k \in DOMAIN s.diffs : Truthy(s.diffs[k]) /\ s.diffs[k].type = "str"

RECURSIVE DiffEntries(_, _)
DiffEntries(s, n) ==
    IF n = 0 THEN <<>>
    ELSE LET k == DiffKeyOrder[n]
         IN  IF k \in DOMAIN s.diffs /\ Truthy(s.diffs[k]) /\ s.diffs[k].type = "dict"
             THEN Append(DiffEntries(s, n - 1),
                         [component |-> s.component_type, id |-> s.id, state |-> k,
                          changed |-> s.diffs[k].val.changed, reason |-> s.diffs[k].val.reason])
             ELSE DiffEntries(s, n - 1)

RECURSIVE StateDiffsOf(_, _)
StateDiffsOf(batch, n) ==
    IF n = 0 THEN <<>>
    ELSE StateDiffsOf(batch, n - 1) \o
            (IF DOMAIN batch[n].states = {} THEN <<>>
             ELSE DiffEntries(batch[n], Len(DiffKeyOrder)))

BuildInteractionModel ==
    /\ cs_pc = "returned"
    /\ bim_pc = "idle"
    /\ IF \E i \in 1..Len(samples) : SampleRaises(samples[i])
       THEN bim_pc' = "raised" /\ state_diffs' = <<>>
       ELSE bim_pc' = "done" /\ state_diffs' = StateDiffsOf(samples, Len(samples))
    /\ UNCHANGED <<samples, allow_anchor_active, cs_i, cs_pc, visited, statesLocals,
                   pending_up, nav_down_issued>>
    /\ OutsideStates

StatesNext ==
    \/ NextSample
    \/ LoopEnd
    \/ QuerySelector
    \/ FindElementByTextRole
    \/ ScrollIntoView
    \/ ReadDefault
    \/ NavigationalTest
    \/ TryHover
    \/ TryFocusVisible
    \/ SkipActive
    \/ TryActive_PointerDown
    \/ TryActive_Style
    \/ TryActive_Finally
    \/ RecordDiffs
    \/ HandleException
    \/ BuildInteractionModel

\* C4 as stated: build_interaction_model never raises on a batch that
\* collect_states can produce, including samples whose capture failed with
\* element-not-found or with an exception after the default snapshot was stored.
C4_ReportingCompletes == bim_pc # "raised"

\* C5: for any batch and any pattern of failures of the per-element browser
\* operations, collect_states takes up every sample in order and returns
\* without raising; a failure on one sample never keeps the loop from the next.
C5_SampleIsolation ==
    /\ cs_pc # "raised"
    /\ visited = [k \in 1..Len(visited) |-> k]
    /\ Len(visited) = (IF cs_pc \in {"loop", "returned"} THEN cs_i - 1 ELSE cs_i)
    /\ cs_pc = "returned" => Len(visited) = Len(samples)
    /\ cs_pc \in {"loop", "except"} => cs_i <= Len(samples) + 1
    /\ cs_pc = "except" => exc \in ExcTexts

\* collect_states returned although the capture of the first sample raised
\* (and the recovery after it could fail too); the second sample was captured.
C5_Witness ==
    /\ cs_pc = "returned"
    /\ Len(samples) = 2
    /\ DOMAIN samples[1].diffs = {"error"}
    /\ samples[1].diffs["error"] = PyStr("Timeout 30000ms exceeded")
    /\ DOMAIN samples[2].diffs = {"hover", "focus_visible", "active"}

\* C8: when allow_anchor_active is false no pointer-down is issued on an element
\* classified as navigational: its active diff is {changed: {}, reason:
\* "skipped navigational element"} while hover and focus are still captured;
\* when allow_anchor_active is true the active state of a navigational element
\* is captured by try_active like that of any other element.
C8_NavigationalActive ==
    /\ ~allow_anchor_active => ~nav_down_issued
    /\ (cs_pc \in {"loop", "returned"} /\ is_navigational) =>
          LET s == samples[cs_i - 1]
          IN  /\ s.states["hover"] = hover.styles
              /\ s.states["focus_visible"] = focus.styles
              /\ hover.styles \in AltSnapshots \cup {ErrorDict("hover failed")}
              /\ focus.styles \in AltSnapshots \cup {ErrorDict("focus failed")}
              /\ s.diffs["hover"] = PyDict(compute_state_diff(default_styles, hover.styles, hover.reason))
              /\ IF allow_anchor_active
                 THEN /\ s.states["active"] \in AltSnapshots \cup {ErrorDict("active failed")}
                      /\ s.diffs["active"].val.reason # "skipped navigational element"
                 ELSE /\ s.states["active"] = ErrorDict("active skipped for navigational element")
                      /\ s.diffs["active"] =
                            PyDict([changed |-> EmptyDict, reason |-> "skipped navigational element"])

\* A navigational element with the flag off: hover captured, active skipped.
C8_Witness ==
    /\ cs_pc = "returned"
    /\ ~allow_anchor_active
    /\ is_navigational
    /\ Len(samples) >= 1
    /\ samples[Len(samples)].states["hover"] = ChangedSnapshot
    /\ samples[Len(samples)].diffs["hover"].val.changed # EmptyDict
    /\ samples[Len(samples)].diffs["active"].val.reason = "skipped navigational element"

\* C22: after collect_states, in every outcome, each sample's diffs is empty
\* or maps state names (hover, focus_visible, active) to records {changed,
\* reason}, and its states maps state names (default, hover, focus_visible,
\* active) to a style mapping or an error marker.
C22_DiffsShape ==
    cs_pc = "returned" =>
        \A i \in 1..Len(samples) :
            /\ DOMAIN samples[i].diffs \subseteq {"hover", "focus_visible", "active"}
            /\ \A k \in DOMAIN samples[i].diffs :
                  /\ samples[i].diffs[k].type = "dict"
                  /\ DOMAIN samples[i].diffs[k].val = {"changed", "reason"}
            /\ DOMAIN samples[i].states \subseteq {"default", "hover", "focus_visible", "active"}
            /\ \A k \in DOMAIN samples[i].states :
                  \/ samples[i].states[k] \in AltSnapshots
                  \/ DOMAIN samples[i].states[k] = {"error"}

\* C26: collect_states never adds, removes or reorders samples and changes only
\* their states and diffs; a sample of a non-interactive type or without
\* selector_path keeps states == {} and diffs == {} and no interaction is
\* performed on it; a sample whose capture fails stays in the batch with the
\* failure recorded in its diffs, and a finished sample is not touched again.
C26_OnlyStatesAndDiffs ==
    [][/\ Len(samples') = Len(samples)
       /\ \A i \in 1..Len(samples) :
             /\ [samples'[i] EXCEPT !.states = EmptyDict, !.diffs = EmptyDict]
                   = [samples[i] EXCEPT !.states = EmptyDict, !.diffs = EmptyDict]
             /\ (\/ samples[i].component_type \notin InteractiveTypes
                 \/ samples[i].selector_path = "")
                   => /\ samples'[i] = samples[i]
                      /\ samples[i].states = EmptyDict
                      /\ samples[i].diffs = EmptyDict
             /\ i < cs_i => samples'[i] = samples[i]
       /\ cs_pc' \notin {"idle", "loop", "returned"}
             => /\ samples[cs_i'].component_type \in InteractiveTypes
                /\ samples[cs_i'].selector_path # ""
       /\ (cs_pc \in {"find_by_text", "except"} /\ cs_pc' = "loop")
             => /\ cs_i' = cs_i + 1
                /\ DOMAIN samples'[cs_i].diffs = {"error"}
                /\ samples'[cs_i].diffs["error"].type = "str"
      ]_vars

\* A batch of a typography sample and a button whose element was not found:
\* the first untouched, the second kept with the failure in its diffs.
C26_Witness ==
    /\ cs_pc = "returned"
    /\ Len(samples) = 2
    /\ samples[1].component_type \notin InteractiveTypes
    /\ samples[1].states = EmptyDict /\ samples[1].diffs = EmptyDict
    /\ samples[2].selector_path # ""
    /\ samples[2].diffs = ErrorDict(PyStr("element_not_found"))

\* C30: every pointer-down of try_active is followed by a pointer-up attempt
\* before try_active returns, hence before the next sample, whether the style
\* read succeeds or raises; a failing pointer-up is swallowed and leaves the
\* captured active result as it was.
C30_PointerUp ==
    [][/\ pending_up' => cs_pc' \in {"active_style", "active_finally"} /\ cs_i' = cs_i
       /\ cs_pc = "active_style" => cs_pc' = "active_finally" /\ pending_up'
       /\ cs_pc = "active_finally"
             => /\ ~pending_up'
                /\ active' = active
                /\ cs_pc' = "record"
      ]_vars

\* The pointer went down on the only sample, the style read raised, and
\* try_active has returned the failure with the pointer released.
C30_Witness ==
    /\ cs_pc = "record"
    /\ Len(samples) = 1
    /\ nav_down_issued
    /\ ~pending_up
    /\ active.styles = ErrorDict("active failed")
    /\ active.reason \in ExcTexts

(***************************************************************************)
(* Strings whose characters matter are sequences of atoms: a run of letters *)
(* or digits is one atom, every other character is an atom of its own.     *)
(***************************************************************************)
Whitespace == {" "}

\* re.sub(r"[^\w\-]", "_", value): letters, digits, "_" and "-" stay.
UnsafeChars == {" ", ",", ".", "=", "/", ":"}
safe_filename(value) ==
    [i \in 1..Len(value) |-> IF value[i] \in UnsafeChars THEN "_" ELSE value[i]]

\* sep.join(parts)
RECURSIVE Join(_, _)
Join(parts, sep) ==
    IF parts = <<>> THEN <<>>
    ELSE IF Len(parts) = 1 THEN parts[1]
    ELSE parts[1] \o <<sep>> \o Join(Tail(parts), sep)

\* value.split(sep)
RECURSIVE SplitAt(_, _, _)
SplitAt(value, sep, acc) ==
    IF value = <<>> THEN <<acc>>
    ELSE IF Head(value) = sep THEN <<acc>> \o SplitAt(Tail(value), sep, <<>>)
    ELSE SplitAt(Tail(value), sep, Append(acc, Head(value)))
Split(value, sep) == SplitAt(value, sep, <<>>)

\* value.strip(chars)
RECURSIVE LStripOf(_, _)
LStripOf(value, chars) ==
    IF value # <<>> /\ Head(value) \in chars THEN LStripOf(Tail(value), chars) ELSE value
RECURSIVE RStripOf(_, _)
RStripOf(value, chars) ==
    IF value # <<>> /\ value[Len(value)] \in chars
    THEN RStripOf(SubSeq(value, 1, Len(value) - 1), chars)
    ELSE value
StripOf(value, chars) == LStripOf(RStripOf(value, chars), chars)

\* value.strip()
Strip(value) == StripOf(value, Whitespace)

\* [f(x) for x in xs if x non-empty]
RECURSIVE NonEmptyStripped(_)
NonEmptyStripped(parts) ==
    IF parts = <<>> THEN <<>>
    ELSE IF Strip(Head(parts)) = <<>> THEN NonEmptyStripped(Tail(parts))
    ELSE <<Strip(Head(parts))>> \o NonEmptyStripped(Tail(parts))

\* parse_theme_modes(raw); None and "" are both <<>>.
parse_theme_modes(raw) ==
    IF raw = <<>> THEN << <<"default">> >>
    ELSE LET modes == NonEmptyStripped(Split(raw, ","))
         IN  IF modes = <<>> THEN << <<"default">> >> ELSE modes

\* str(n) for the small counts of the model
Digits == <<"0", "1", "2", "3", "4", "5", "6">>
Str(n) == <<Digits[n + 1]>>

(***************************************************************************)
(* collect_all, collect_page                                               *)
(***************************************************************************)
\* Theme names given on the command line, and the --theme-modes arguments made
\* of them (a name may be given twice; a name may come with blanks around it).
ThemeNames == {<<"dark">>, <<" ", "high", " ", "contrast">>, <<"high", "_", "contrast">>}
RawThemeArgs == {Join(names, ",") : names \in SeqsUpTo(ThemeNames, MaxThemes)}

\* Keys of self.breakpoints, in insertion order, as parse_breakpoints returns them.
BreakpointConfigs == {<< <<"desktop">> >>, << <<"desktop">>, <<"mobile">> >>}

\* pages_to_collect
PagesToCollect(nav) ==
    IF nav = "" THEN << <<"home">> >> ELSE << <<"home">>, <<"nav">> >>

\* Component types as they are spelled in ids.
TypeAtoms(component_type) ==
    CASE component_type = "grid_container" -> <<"grid", "_", "container">>
      [] component_type = "overlay_panel" -> <<"overlay", "_", "panel">>
      [] OTHER -> <<component_type>>

\* The elements collect_samples accepts on a page of the site, in discovery
\* order (selector_groups order), after its filters and its deduplication.
SiteElements ==
    <<[component_type |-> "container", selector |-> "main", selector_path |-> "main"],
      [component_type |-> "button", selector |-> "button", selector_path |-> "#cta"],
      [component_type |-> "button", selector |-> ".btn", selector_path |-> "#more"]>>

\* collected: how many elements of the same type were accepted before the k-th.
CollectedBefore(k) ==
    Cardinality({j \in 1..(k - 1) :
                    SiteElements[j].component_type = SiteElements[k].component_type})

\* f"{page_name}_{breakpoint}_{theme_mode}"
PageKey(page_name, breakpoint, theme_mode) ==
    page_name \o <<"_">> \o breakpoint \o <<"_">> \o theme_mode

\* sample dict of collect_samples (lines 1170-1187); capture is what
\* collect_states will leave in states and diffs, from is the combination.
collect_samples(safe_tag, page_name, breakpoint, theme_mode, from) ==
    [k \in 1..Len(SiteElements) |->
        [id |-> safe_tag \o <<"_">> \o TypeAtoms(SiteElements[k].component_type)
                    \o <<"_">> \o Str(CollectedBefore(k)),
         component_type |-> SiteElements[k].component_type,
         page |-> page_name, breakpoint |-> breakpoint, theme |-> theme_mode,
         selector |-> SiteElements[k].selector,
         selector_path |-> SiteElements[k].selector_path,
         capture |-> "none", from |-> from]]

\* sample dict of collect_overlay_samples (lines 1266-1282)
OverlaySample(safe_tag, page_name, breakpoint, theme_mode, idx, from) ==
    [id |-> safe_tag \o <<"_">> \o TypeAtoms("overlay_panel") \o <<"_">> \o Str(idx),
     component_type |-> "overlay_panel",
     page |-> page_name, breakpoint |-> breakpoint, theme |-> theme_mode,
     selector |-> "overlay_panel", selector_path |-> "#menu",
     capture |-> "none", from |-> from]

\* lines 659-664: the --selected filter
RECURSIVE SelectSeq2(_, _)
SelectSeq2(xs, keep) ==
    IF xs = <<>> THEN <<>>
    ELSE IF Head(xs).selector_path \in keep \/ Head(xs).selector \in keep
         THEN <<Head(xs)>> \o SelectSeq2(Tail(xs), keep)
         ELSE SelectSeq2(Tail(xs), keep)
FilterSelected(xs, keep) == IF keep = {} THEN xs ELSE SelectSeq2(xs, keep)

\* The combination the loops of collect_all are at.
ThemeOf(c) == theme_modes[c.t]
PageOf(c) == PagesToCollect(nav_path)[c.p]
BreakpointOf(c) == breakpoints[c.b]
PageKeyOf(c) == PageKey(PageOf(c), BreakpointOf(c), ThemeOf(c))
SafeTagOf(c) == safe_filename(PageKeyOf(c))

\* Number of combinations of a configuration.
NumCombos(themes, nav, bps) == Len(themes) * Len(PagesToCollect(nav)) * Len(bps)

\* Entries of self.limits.
FailedLimit(page_key, st) == [kind |-> "failed", page_key |-> page_key, stage |-> st]
OtherLimit(kind) == [kind |-> kind, page_key |-> <<>>, stage |-> ""]

\* Entries of self.pages.
ErrorRecord(st) == [error |-> TRUE, stage |-> st, samples |-> <<>>]
PageRecord(smp) == [error |-> FALSE, stage |-> "", samples |-> [i \in 1..Len(smp) |-> smp[i].id]]

\* pages[page_key] = record
SetPage(page_key, rec) ==
    pages' = [k \in DOMAIN pages \cup {page_key} |-> IF k = page_key THEN rec ELSE pages[k]]

CollectInit ==
    /\ \E raw \in RawThemeArgs : theme_modes = parse_theme_modes(raw)
    /\ breakpoints \in BreakpointConfigs
    /\ nav_path \in {"", "/catalog"}
    /\ NumCombos(theme_modes, nav_path, breakpoints) <= MaxPages
    /\ skip_overlays \in BOOLEAN
    /\ candidates_only \in BOOLEAN
    /\ selected_selector_paths \in {{}, {"#cta"}}
    /\ self_samples = <<>>
    /\ self_candidates = <<>>
    /\ pages = <<>>
    /\ limits = <<>>
    /\ notes = <<>>
    /\ combo = [t |-> 1, p |-> 1, b |-> 0]
    /\ ca_pc = "loop"
    /\ cp_pc = "idle"
    /\ stage = ""
    /\ page_samples = <<>>
    /\ open_contexts = 0
    /\ escaped = ""
    /\ failed = <<>>
    /\ faults_left = MaxFaults

CollectIdle ==
    /\ theme_modes = <<>>
    /\ breakpoints = <<>>
    /\ nav_path = ""
    /\ skip_overlays = FALSE
    /\ candidates_only = FALSE
    /\ selected_selector_paths = {}
    /\ self_samples = <<>>
    /\ self_candidates = <<>>
    /\ pages = <<>>
    /\ limits = <<>>
    /\ notes = <<>>
    /\ combo = [t |-> 1, p |-> 1, b |-> 0]
    /\ ca_pc = "idle"
    /\ cp_pc = "idle"
    /\ stage = ""
    /\ page_samples = <<>>
    /\ open_contexts = 0
    /\ escaped = ""
    /\ failed = <<>>
    /\ faults_left = 0

\* The next position of the three nested loops (breakpoints innermost).
NextCombo(c) ==
    IF c.b < Len(breakpoints) THEN [c EXCEPT !.b = c.b + 1]
    ELSE IF c.p < Len(PagesToCollect(nav_path)) THEN [c EXCEPT !.p = c.p + 1, !.b = 1]
    ELSE [t |-> c.t + 1, p |-> 1, b |-> 1]

\* A browser operation fails: the failure is noted, the budget shrinks.
Fault(step) ==
    /\ faults_left > 0
    /\ faults_left' = faults_left - 1
    /\ failed' = Append(failed, [combo |-> combo, step |-> step])

NoFault == UNCHANGED <<faults_left, failed>>

\* collect_all: the loops call collect_page (lines 589-592 set stage = "init").
CallCollectPage ==
    /\ ca_pc = "loop"
    /\ cp_pc = "idle"
    /\ NextCombo(combo).t <= Len(theme_modes)
    /\ combo' = NextCombo(combo)
    /\ cp_pc' = "new_context"
    /\ stage' = "init"
    /\ page_samples' = <<>>
    /\ NoFault
    /\ UNCHANGED <<collectConfig, self_samples, self_candidates, pages, limits, notes, ca_pc,
                   open_contexts, escaped>>
    /\ OutsideCollect

\* collect_all: the loops are done; the artifacts are written, then build_results.
LoopsDone ==
    /\ ca_pc = "loop"
    /\ cp_pc = "idle"
    /\ NextCombo(combo).t > Len(theme_modes)
    /\ ca_pc' = "build"
    /\ NoFault
    /\ UNCHANGED <<collectConfig, self_samples, self_candidates, pages, limits, notes, combo,
                   cp_pc, stage, page_samples, open_contexts, escaped>>
    /\ OutsideCollect

\* An exception raised outside the try of line 602 leaves collect_page, and
\* collect_all, which catches nothing, with it.
Escape(step) ==
    /\ Fault(step)
    /\ escaped' = step
    /\ cp_pc' = "raised"
    /\ ca_pc' = "raised"

\* context = await browser.new_context(...)
NewContext ==
    /\ cp_pc = "new_context"
    /\ \/ /\ open_contexts' = open_contexts + 1
          /\ cp_pc' = "new_page"
          /\ NoFault
          /\ UNCHANGED <<escaped, ca_pc>>
       \/ Escape("new_context") /\ UNCHANGED open_contexts
    /\ UNCHANGED <<collectConfig, self_samples, self_candidates, pages, limits, notes, combo,
                   stage, page_samples>>
    /\ OutsideCollect

\* page = await context.new_page(); self.network_logger.attach(page, ...)
NewPageAndAttach ==
    /\ cp_pc \in {"new_page", "attach"}
    /\ \/ /\ cp_pc' = (IF cp_pc = "new_page" THEN "attach" ELSE "goto")
          /\ NoFault
          /\ UNCHANGED <<escaped, ca_pc>>
       \/ Escape(cp_pc)
    /\ UNCHANGED <<collectConfig, self_samples, self_candidates, pages, limits, notes, combo,
                   stage, page_samples, open_contexts>>
    /\ OutsideCollect

\* The stages of the try block that touch no state of the collector the model
\* keeps, in order; tech_fingerprint runs for home/desktop/default only.
PlainStages ==
    <<"goto", "wait_body", "wait_networkidle", "post_wait", "apply_theme", "screenshots",
      "save_html", "extract_css", "download_css", "inline_fonts", "font_probes",
      "tech_fingerprint", "collect_candidates">>
StageIndex(st) == CHOOSE i \in 1..Len(PlainStages) : PlainStages[i] = st
HasTechFingerprint(c) ==
    PageOf(c) = <<"home">> /\ BreakpointOf(c) = <<"desktop">> /\ ThemeOf(c) = <<"default">>
StageAfter(st, c) ==
    LET nxt == PlainStages[StageIndex(st) + 1]
    IN  IF nxt = "tech_fingerprint" /\ ~HasTechFingerprint(c)
        THEN "collect_candidates"
        ELSE nxt

\* stage = "..."; await <one browser operation>: it succeeds or raises into
\* the except of line 681.
PlainStage ==
    /\ cp_pc \in {"goto", "wait_body", "post_wait", "screenshots", "save_html", "extract_css",
                  "download_css", "inline_fonts", "font_probes", "tech_fingerprint"}
    /\ stage' = cp_pc
    /\ \/ cp_pc' = StageAfter(cp_pc, combo) /\ NoFault
       \/ cp_pc' = "except" /\ Fault(cp_pc)
    /\ UNCHANGED <<collectConfig, self_samples, self_candidates, pages, limits, notes, combo,
                   ca_pc, page_samples, open_contexts, escaped>>
    /\ OutsideCollect

\* lines 607-611: a failing wait for networkidle is passed over
WaitNetworkIdle ==
    /\ cp_pc = "wait_networkidle"
    /\ stage' = "wait_networkidle"
    /\ \E timed_out \in BOOLEAN : cp_pc' = "post_wait"
    /\ NoFault
    /\ UNCHANGED <<collectConfig, self_samples, self_candidates, pages, limits, notes, combo,
                   ca_pc, page_samples, open_contexts, escaped>>
    /\ OutsideCollect

\* apply_theme_mode: nothing for "default"; a failure is noted in self.limits
ApplyThemeMode ==
    /\ cp_pc = "apply_theme"
    /\ stage' = "apply_theme"
    /\ cp_pc' = "screenshots"
    /\ \/ NoFault /\ UNCHANGED limits
       \/ /\ ThemeOf(combo) # <<"default">>
          /\ Fault("apply_theme_mode")
          /\ limits' = Append(limits, OtherLimit("theme"))
    /\ UNCHANGED <<collectConfig, self_samples, self_candidates, pages, notes, combo,
                   ca_pc, page_samples, open_contexts, escaped>>
    /\ OutsideCollect

\* lines 646-655: with candidates_only collect_page returns from inside the try
\* (its finally runs); otherwise it goes on with collect_samples
AfterCandidates_NoReturn(only) == "collect_samples"
AfterCandidates(only) == IF only THEN "finally" ELSE "collect_samples"

\* lines 642-655: collect_candidates; with candidates_only the page is
\* recorded without samples and collect_page returns
CollectCandidates ==
    /\ cp_pc = "collect_candidates"
    /\ stage' = "collect_candidates"
    /\ \/ /\ NoFault
          /\ self_candidates' =
                Append(self_candidates, SafeTagOf(combo) \o <<"_", "candidate", "_", "cta", "_", "0">>)
          /\ IF candidates_only
             THEN SetPage(PageKeyOf(combo), PageRecord(<<>>))
             ELSE UNCHANGED pages
          /\ cp_pc' = AfterCandidates(candidates_only)
       \/ /\ Fault("collect_candidates")
          /\ cp_pc' = "except"
          /\ UNCHANGED <<self_candidates, pages>>
    /\ UNCHANGED <<collectConfig, self_samples, limits, notes, combo,
                   ca_pc, page_samples, open_contexts, escaped>>
    /\ OutsideCollect

\* lines 657-664: collect_samples and the --selected filter
CollectSamples ==
    /\ cp_pc = "collect_samples"
    /\ stage' = "collect_samples"
    /\ \/ /\ NoFault
          /\ page_samples' =
                FilterSelected(
                    collect_samples(SafeTagOf(combo), PageOf(combo), BreakpointOf(combo),
                                    ThemeOf(combo), combo),
                    selected_selector_paths)
          /\ cp_pc' = (IF skip_overlays THEN "collect_states" ELSE "collect_overlays")
       \/ /\ Fault("collect_samples")
          /\ cp_pc' = "except"
          /\ UNCHANGED page_samples
    /\ UNCHANGED <<collectConfig, self_samples, self_candidates, pages, limits, notes, combo,
                   ca_pc, open_contexts, escaped>>
    /\ OutsideCollect

\* lines 665-667: collect_overlay_samples with one trigger on the page: its
\* panel is appended to samples, or the trigger or the panel fails with a
\* note in self.limits, or a browser operation raises.
CollectOverlaySamples ==
    /\ cp_pc = "collect_overlays"
    /\ stage' = "collect_overlays"
    /\ \/ /\ NoFault
          /\ page_samples' =
                Append(page_samples,
                       OverlaySample(SafeTagOf(combo), PageOf(combo), BreakpointOf(combo),
                                     ThemeOf(combo), 0, combo))
          /\ cp_pc' = "collect_states"
          /\ UNCHANGED limits
       \/ /\ Fault("overlay")
          /\ \E kind \in {"overlay_trigger", "overlay_panel"} :
                limits' = Append(limits, OtherLimit(kind))
          /\ cp_pc' = "collect_states"
          /\ UNCHANGED page_samples
       \/ /\ Fault("collect_overlays")
          /\ cp_pc' = "except"
          /\ UNCHANGED <<page_samples, limits>>
    /\ UNCHANGED <<collectConfig, self_samples, self_candidates, pages, notes, combo,
                   ca_pc, open_contexts, escaped>>
    /\ OutsideCollect

\* What collect_states leaves in a sample: nothing for the other component
\* types; for the interactive ones the recorded diffs, or {"error": str} with
\* states still empty ("raised_early") or with the default snapshot stored
\* ("raised_late").
CaptureOutcomes(s) ==
    IF s.component_type \in InteractiveTypes
    THEN {"recorded", "not_found", "raised_early", "raised_late"}
    ELSE {"none"}

\* lines 668-670: collect_states raises nothing; self.samples.extend(samples)
CollectStates ==
    /\ cp_pc = "collect_states"
    /\ stage' = "collect_states"
    /\ \/ /\ NoFault
          /\ self_samples' = self_samples \o
                [i \in 1..Len(page_samples) |->
                    [page_samples[i] EXCEPT !.capture =
                        IF "recorded" \in CaptureOutcomes(page_samples[i])
                        THEN "recorded" ELSE "none"]]
       \/ /\ Fault("collect_states")
          /\ \E k \in 1..Len(page_samples) :
             \E out \in CaptureOutcomes(page_samples[k]) \ {"recorded", "none"} :
                self_samples' = self_samples \o
                    [i \in 1..Len(page_samples) |->
                        [page_samples[i] EXCEPT !.capture =
                            IF i = k THEN out
                            ELSE IF "recorded" \in CaptureOutcomes(page_samples[i])
                                 THEN "recorded" ELSE "none"]]
    /\ cp_pc' = "page_finalize"
    /\ UNCHANGED <<collectConfig, self_candidates, pages, limits, notes, combo,
                   ca_pc, page_samples, open_contexts, escaped>>
    /\ OutsideCollect

\* lines 672-679
PageFinalize ==
    /\ cp_pc = "page_finalize"
    /\ stage' = "page_finalize"
    /\ SetPage(PageKeyOf(combo), PageRecord(page_samples))
    /\ cp_pc' = "finally"
    /\ NoFault
    /\ UNCHANGED <<collectConfig, self_samples, self_candidates, limits, notes, combo,
                   ca_pc, page_samples, open_contexts, escaped>>
    /\ OutsideCollect

\* lines 681-683
ExceptHandler ==
    /\ cp_pc = "except"
    /\ SetPage(PageKeyOf(combo), ErrorRecord(stage))
    /\ limits' = Append(limits, FailedLimit(PageKeyOf(combo), stage))
    /\ cp_pc' = "finally"
    /\ NoFault
    /\ UNCHANGED <<collectConfig, self_samples, self_candidates, notes, combo,
                   ca_pc, stage, page_samples, open_contexts, escaped>>
    /\ OutsideCollect

\* lines 684-685: await context.close(); what it raises leaves collect_page
FinallyClose ==
    /\ cp_pc = "finally"
    /\ \/ /\ open_contexts' = open_contexts - 1
          /\ cp_pc' = "idle"
          /\ NoFault
          /\ UNCHANGED <<escaped, ca_pc>>
       \/ Escape("context_close") /\ UNCHANGED open_contexts
    /\ UNCHANGED <<collectConfig, self_samples, self_candidates, pages, limits, notes, combo,
                   stage, page_samples>>
    /\ OutsideCollect

\* build_results: build_interaction_model raises on a sample whose diffs hold
\* a str while its states are not empty (line 1749); lines 1519-1522 set notes.
build_results_notes(lim) ==
    IF lim # <<>> THEN <<OtherLimit("Limits:")>> \o lim
    ELSE <<OtherLimit("Limits: none detected")>>

BuildResults ==
    /\ ca_pc = "build"
    /\ IF \E i \in 1..Len(self_samples) : self_samples[i].capture = "raised_late"
       THEN ca_pc' = "raised" /\ UNCHANGED notes
       ELSE ca_pc' = "done" /\ notes' = build_results_notes(limits)
    /\ NoFault
    /\ UNCHANGED <<collectConfig, self_samples, self_candidates, pages, limits, combo,
                   cp_pc, stage, page_samples, open_contexts, escaped>>
    /\ OutsideCollect

CollectNext ==
    \/ CallCollectPage
    \/ LoopsDone
    \/ NewContext
    \/ NewPageAndAttach
    \/ PlainStage
    \/ WaitNetworkIdle
    \/ ApplyThemeMode
    \/ CollectCandidates
    \/ CollectSamples
    \/ CollectOverlaySamples
    \/ CollectStates
    \/ PageFinalize
    \/ ExceptHandler
    \/ FinallyClose
    \/ BuildResults

(***************************************************************************)
(* Claims about collect_all and collect_page                               *)
(***************************************************************************)
\* The steps of collect_page whose failure makes the combination fail: the
\* three calls before the try and the stages of the try that raise.
PageSteps ==
    {"new_context", "new_page", "attach", "goto", "wait_body", "post_wait", "screenshots",
     "save_html", "extract_css", "download_css", "inline_fonts", "font_probes",
     "tech_fingerprint", "collect_candidates", "collect_samples", "collect_overlays"}

\* The value of the local stage when the step fails.
StageOfStep(step) == IF step \in {"new_context", "new_page", "attach"} THEN "init" ELSE step

\* The call of collect_page for combination c is over.
CallOver(c) == c # combo \/ cp_pc \in {"idle", "raised"} \/ ca_pc # "loop"

\* C6: a failure at any step of collect_page, the creation of the context, the
\* opening of the page and the attaching of the logger included, leaves
\* collect_page normally (no exception escapes it, so collect_all goes on),
\* and self.samples holds no sample of the combination that failed.
C6_FailureContained ==
    /\ escaped = ""
    /\ \A i \in 1..Len(failed) :
          failed[i].step \in PageSteps =>
              \A j \in 1..Len(self_samples) : self_samples[j].from # failed[i].combo

\* C7: every combination that failed has, once its collect_page call is over,
\* exactly one entry in self.limits naming its page key and the stage that
\* failed, and an error record in self.pages; when collect_all is over notes
\* is "Limits:" followed by the limits in order when there is one, and
\* "Limits: none detected" only when there is none.
C7_LimitsAndNotes ==
    /\ \A i \in 1..Len(failed) :
          (failed[i].step \in PageSteps /\ CallOver(failed[i].combo)) =>
              LET key == PageKeyOf(failed[i].combo)
                  entry == FailedLimit(key, StageOfStep(failed[i].step))
              IN  /\ Cardinality({j \in 1..Len(limits) : limits[j] = entry}) = 1
                  /\ key \in DOMAIN pages
                  /\ pages[key].error
    /\ ca_pc \in {"done", "raised"} =>
          /\ limits # <<>> => notes = <<OtherLimit("Limits:")>> \o limits
          /\ limits = <<>> =>
                /\ notes = <<OtherLimit("Limits: none detected")>>
                /\ \A i \in 1..Len(failed) : failed[i].step \notin PageSteps

\* C9: no two entries of self.samples have the same id.
C9_UniqueSampleIds ==
    \A i, j \in 1..Len(self_samples) :
        i # j => self_samples[i].id # self_samples[j].id

\* C23: with a non-empty selected set, every sample of self.samples has its
\* selector_path or its selector in the selected set, whether or not overlay
\* sampling is enabled.
C23_SelectedOnly ==
    selected_selector_paths # {} =>
        \A i \in 1..Len(self_samples) :
            \/ self_samples[i].selector_path \in selected_selector_paths
            \/ self_samples[i].selector \in selected_selector_paths

\* C24: with candidates_only, component sampling is skipped on every page:
\* self.samples stays empty for the whole run, collect_page never reaches
\* collect_samples, the overlay triggers or collect_states, the candidates of
\* every collected page are in self.candidates, and each page record has
\* samples == [].
C24_CandidatesOnly ==
    candidates_only =>
        /\ self_samples = <<>>
        /\ page_samples = <<>>
        /\ cp_pc \notin {"collect_samples", "collect_overlays", "collect_states", "page_finalize"}
        /\ stage \notin {"collect_samples", "collect_overlays", "collect_states", "page_finalize"}
        /\ \A k \in DOMAIN pages :
              ~pages[k].error =>
                 /\ pages[k].samples = <<>>
                 /\ \E c \in 1..Len(self_candidates) :
                       self_candidates[c] =
                          safe_filename(k) \o <<"_", "candidate", "_", "cta", "_", "0">>

\* A run with candidates_only is over: two pages recorded, their candidates
\* collected, no sample.
C24_Witness ==
    /\ candidates_only
    /\ ca_pc = "done"
    /\ Len(self_candidates) >= 2
    /\ \E k \in DOMAIN pages : ~pages[k].error /\ pages[k].samples = <<>>
    /\ self_samples = <<>>

\* C28: every browser context collect_page creates is closed before
\* collect_page returns or is left by an exception, on every path (a failure
\* of context.close() itself aside).
C28_ContextsClosed ==
    (cp_pc \in {"idle", "raised"} /\ escaped # "context_close") => open_contexts = 0

(***************************************************************************)
(* build_font_conclusion.  Font families are strings of characters:        *)
(* sequences of one-character strings.                                     *)
(***************************************************************************)
UpperChars ==
    <<"A", "B", "C", "D", "E", "F", "G", "H", "I", "J", "K", "L", "M", "N", "O", "P", "Q", "R", "S", "T", "U", "V", "W", "X", "Y", "Z">>
LowerChars ==
    <<"a", "b", "c", "d", "e", "f", "g", "h", "i", "j", "k", "l", "m", "n", "o", "p", "q", "r", "s", "t", "u", "v", "w", "x", "y", "z">>

\* value.lower()
Lower(value) ==
    [i \in 1..Len(value) |->
        IF \E k \in 1..Len(UpperChars) : UpperChars[k] = value[i]
        THEN LowerChars[CHOOSE k \in 1..Len(UpperChars) : UpperChars[k] = value[i]]
        ELSE value[i]]

\* value.replace(ch, "") for every ch of chars
RECURSIVE Without(_, _)
Without(value, chars) ==
    IF value = <<>> THEN <<>>
    ELSE IF Head(value) \in chars THEN Without(Tail(value), chars)
    ELSE <<Head(value)>> \o Without(Tail(value), chars)

\* a in b, for strings
IsSubstring(a, b) ==
    \E i \in 0..(Len(b) - Len(a)) : SubSeq(b, i + 1, i + Len(a)) = a

SYSTEM_FONTS ==
    {<<"-", "a", "p", "p", "l", "e", "-", "s", "y", "s", "t", "e", "m">>,
     <<"b", "l", "i", "n", "k", "m", "a", "c", "s", "y", "s", "t", "e", "m", "f", "o", "n", "t">>,
     <<"s", "e", "g", "o", "e", " ", "u", "i">>,
     <<"r", "o", "b", "o", "t", "o">>,
     <<"h", "e", "l", "v", "e", "t", "i", "c", "a">>,
     <<"a", "r", "i", "a", "l">>,
     <<"n", "o", "t", "o", " ", "s", "a", "n", "s">>,
     <<"s", "a", "n", "s", "-", "s", "e", "r", "i", "f">>,
     <<"s", "e", "r", "i", "f">>,
     <<"u", "i", "-", "s", "a", "n", "s", "-", "s", "e", "r", "i", "f">>,
     <<"u", "i", "-", "s", "e", "r", "i", "f">>,
     <<"u", "i", "-", "m", "o", "n", "o", "s", "p", "a", "c", "e">>,
     <<"s", "y", "s", "t", "e", "m", "-", "u", "i">>}

\* The font_family values of the @font-face entries of the model ("" missing).
DeclaredFamilies ==
    {<<"\"", "I", "n", "t", "e", "r", "\"">>,
     <<"'", "I", "n", "t", "e", "r", " ", "T", "i", "g", "h", "t", "'">>,
     <<"A", "r", "i", "a", "l">>,
     <<>>}

\* The font-family values of the probes of the model, as the browser
\* serializes them ("" missing).
ProbeFamilies ==
    {<<"I", "n", "t", "e", "r", ",", " ", "s", "a", "n", "s", "-", "s", "e", "r", "i", "f">>,
     <<"\"", "I", "N", "T", "E", "R", "\"">>,
     <<"L", "a", "t", "o", ",", " ", "s", "e", "r", "i", "f">>,
     <<"A", "r", "i", "a", "l", ",", " ", "s", "a", "n", "s", "-", "s", "e", "r", "i", "f">>,
     <<"\"", "\"", ",", " ", "s", "e", "r", "i", "f">>,
     <<"T", "i", "g", "h", "t">>,
     <<>>}

\* lines 1528-1532: fam.replace('"', "").replace("'", "") of the truthy font_family values
PrimaryOf(faces) ==
    {Without(faces[i], {"\"", "'"}) : i \in {j \in 1..Len(faces) : faces[j] # <<>>}}

\* lines 1534-1539
RECURSIVE ComputedOf(_)
ComputedOf(probes) ==
    IF probes = <<>> THEN <<>>
    ELSE IF Head(probes) # <<>> THEN <<Head(probes)>> \o ComputedOf(Tail(probes))
    ELSE ComputedOf(Tail(probes))

\* line 1543: fam.split(",")[0].strip().strip("\"").lower()
FirstToken(fam) == Lower(StripOf(Strip(Split(fam, ",")[1]), {"\""}))

\* line 1544
Tier1Match_EmptyAccepted(first, prim) ==
    /\ first \notin SYSTEM_FONTS
    /\ \E f \in prim : IsSubstring(first, Lower(f))
Tier1Match(first, prim) ==
    /\ first # <<>>
    /\ first \notin SYSTEM_FONTS
    /\ \E f \in prim : IsSubstring(first, Lower(f))

FontInit ==
    /\ font_faces \in SeqsUpTo(DeclaredFamilies, MaxFaces)
    /\ font_probes \in SeqsUpTo(ProbeFamilies, MaxProbes)
    /\ font_requests \in 0..MaxRequests
    /\ primary = {}
    /\ computed_families = <<>>
    /\ fc_i = 0
    /\ verified = FALSE
    /\ fc_pc = "families"
    /\ fc_status = ""

FontIdle ==
    /\ font_faces = <<>>
    /\ font_probes = <<>>
    /\ font_requests = 0
    /\ primary = {}
    /\ computed_families = <<>>
    /\ fc_i = 0
    /\ verified = FALSE
    /\ fc_pc = "idle"
    /\ fc_status = ""

\* lines 1527-1532
BuildPrimary ==
    /\ fc_pc = "families"
    /\ primary' = PrimaryOf(font_faces)
    /\ fc_pc' = "computed"
    /\ UNCHANGED <<font_faces, font_probes, font_requests, computed_families, fc_i, verified,
                   fc_status>>
    /\ OutsideFont

\* lines 1534-1541
BuildComputed ==
    /\ fc_pc = "computed"
    /\ computed_families' = ComputedOf(font_probes)
    /\ verified' = FALSE
    /\ fc_i' = 1
    /\ fc_pc' = "tier1"
    /\ UNCHANGED <<font_faces, font_probes, font_requests, primary, fc_status>>
    /\ OutsideFont

\* lines 1542-1546: one iteration of the loop, which breaks on the first match
Tier1Step ==
    /\ fc_pc = "tier1"
    /\ fc_i <= Len(computed_families)
    /\ IF Tier1Match(FirstToken(computed_families[fc_i]), primary)
       THEN verified' = TRUE /\ fc_pc' = "tier2" /\ UNCHANGED fc_i
       ELSE fc_i' = fc_i + 1 /\ UNCHANGED <<verified, fc_pc>>
    /\ UNCHANGED <<font_faces, font_probes, font_requests, primary, computed_families,
                   fc_status>>
    /\ OutsideFont

\* the loop ends without a match
Tier1End ==
    /\ fc_pc = "tier1"
    /\ fc_i > Len(computed_families)
    /\ fc_pc' = "tier2"
    /\ UNCHANGED <<font_faces, font_probes, font_requests, primary, computed_families, fc_i,
                   verified, fc_status>>
    /\ OutsideFont

\* lines 1547-1548
Tier2 ==
    /\ fc_pc = "tier2"
    /\ verified' = (verified \/ (font_requests > 0 /\ computed_families # <<>>))
    /\ fc_pc' = "return"
    /\ UNCHANGED <<font_faces, font_probes, font_requests, primary, computed_families, fc_i,
                   fc_status>>
    /\ OutsideFont

\* lines 1550-1558
ReturnConclusion ==
    /\ fc_pc = "return"
    /\ fc_status' = (IF verified THEN "VERIFIED" ELSE "UNVERIFIED")
    /\ fc_pc' = "done"
    /\ UNCHANGED <<font_faces, font_probes, font_requests, primary, computed_families, fc_i,
                   verified>>
    /\ OutsideFont

FontNext ==
    \/ BuildPrimary
    \/ BuildComputed
    \/ Tier1Step
    \/ Tier1End
    \/ Tier2
    \/ ReturnConclusion

(***************************************************************************)
(* Claims about build_font_conclusion                                      *)
(***************************************************************************)
\* The first font-family token of a probe, compared case-insensitively: the
\* text before the first comma without the blanks and the double quotes
\* around it, in lower case.
ProbeTokens ==
    {FirstToken(font_probes[i]) : i \in {j \in 1..Len(font_probes) : font_probes[j] # <<>>}}

\* The quote-stripped declared @font-face families.
QuoteStripped ==
    {Without(font_faces[i], {"\"", "'"}) : i \in {j \in 1..Len(font_faces) : font_faces[j] # <<>>}}

\* Tier 2: a font network request and a computed probe with a font-family.
Tier2Holds == font_requests >= 1 /\ \E i \in 1..Len(font_probes) : font_probes[i] # <<>>

\* C10 as it is stated: VERIFIED exactly when some probe's first token is not
\* in the denylist and is a substring of a quote-stripped declared family, or
\* tier 2 holds; an empty first token is a substring of every family.
C10_AsStated ==
    fc_pc = "done" =>
        (fc_status = "VERIFIED" <=>
            \/ \E tok \in ProbeTokens :
                  /\ tok \notin SYSTEM_FONTS
                  /\ \E f \in QuoteStripped : IsSubstring(tok, Lower(f))
            \/ Tier2Holds)

\* C10: build_font_conclusion returns VERIFIED exactly when some probe's first
\* font-family token is not empty, is not in the system-font denylist and is,
\* case-insensitively, a substring of a quote-stripped declared family, or
\* there is a font request and a probe with a font-family; otherwise it
\* returns UNVERIFIED.  Declared "Inter", probe "Inter, sans-serif" and one
\* font request give VERIFIED.
C10_FontConclusion ==
    fc_pc = "done" =>
        /\ fc_status \in {"VERIFIED", "UNVERIFIED"}
        /\ fc_status = "VERIFIED" <=>
              \/ \E tok \in ProbeTokens :
                    /\ tok # <<>>
                    /\ tok \notin SYSTEM_FONTS
                    /\ \E f \in QuoteStripped : IsSubstring(tok, Lower(f))
              \/ Tier2Holds
        /\ (/\ font_faces = <<<<"\"", "I", "n", "t", "e", "r", "\"">>>>
            /\ font_probes = <<<<"I", "n", "t", "e", "r", ",", " ", "s", "a", "n", "s", "-", "s", "e", "r", "i", "f">>>>
            /\ font_requests = 1) => fc_status = "VERIFIED"

\* Tier 1 alone: declared "Inter", probe "Inter, sans-serif", no font request.
C10_Witness ==
    /\ fc_pc = "done"
    /\ font_faces = <<<<"\"", "I", "n", "t", "e", "r", "\"">>>>
    /\ font_probes = <<<<"I", "n", "t", "e", "r", ",", " ", "s", "a", "n", "s", "-", "s", "e", "r", "i", "f">>>>
    /\ font_requests = 0
    /\ fc_status = "VERIFIED"

\* C27: in the fallback tier, network font activity counts only together with
\* a non-system computed font: a batch whose computed probes all have a first
\* font-family token in the system-font denylist is not VERIFIED, however many
\* font requests were seen.
C27_FallbackNeedsNonSystem ==
    (fc_pc = "done" /\ ProbeTokens \subseteq SYSTEM_FONTS) => fc_status = "UNVERIFIED"

(***************************************************************************)
(* Parsing of computed CSS values: float(), int(), parse_color,            *)
(* color_to_string, parse_length, parse_duration.  A float is kept in      *)
(* thousandths: [kind |-> "num", milli |-> n] stands for n / 1000.         *)
(***************************************************************************)
DecDigits == <<"0", "1", "2", "3", "4", "5", "6", "7", "8", "9">>
HexDigits == DecDigits \o <<"a", "b", "c", "d", "e", "f">>

DigitValue(c) == (CHOOSE k \in 1..Len(HexDigits) : HexDigits[k] = c) - 1
IsDecDigit(c) == \E k \in 1..Len(DecDigits) : DecDigits[k] = c
IsHexDigit(c) == \E k \in 1..Len(HexDigits) : HexDigits[k] = c
AllDec(s) == \A i \in 1..Len(s) : IsDecDigit(s[i])

\* int(s, base) for a string of digits of the base
RECURSIVE DigitsValue(_, _)
DigitsValue(s, base) ==
    IF s = <<>> THEN 0
    ELSE DigitsValue(SubSeq(s, 1, Len(s) - 1), base) * base + DigitValue(s[Len(s)])

\* The values of float and of the parsers: a number, inf, nan, None, or the
\* exception that left the call.
Num(m) == [kind |-> "num", milli |-> m]
Inf(sign) == [kind |-> "inf", milli |-> sign]
NaN == [kind |-> "nan", milli |-> 0]
None == [kind |-> "None", milli |-> 0]
Raised(e) == [kind |-> e, milli |-> 0]
ExceptionKinds == {"ValueError", "OverflowError"}

\* The fraction digits of a literal as thousandths (digits after the third
\* are below the resolution of the model).
FracMilli(frac) ==
    LET d == SubSeq(frac \o <<"0", "0", "0">>, 1, 3) IN DigitsValue(d, 10)

\* float(s) of an unsigned literal: digits, digits.digits, digits., .digits,
\* inf, infinity, nan; anything else is a ValueError.
UnsignedFloat(s) ==
    LET parts == Split(s, ".") IN
    IF Lower(s) \in {<<"i", "n", "f">>, <<"i", "n", "f", "i", "n", "i", "t", "y">>}
    THEN Inf(1)
    ELSE IF Lower(s) = <<"n", "a", "n">> THEN NaN
    ELSE IF Len(parts) = 1 /\ s # <<>> /\ AllDec(s) THEN Num(DigitsValue(s, 10) * 1000)
    ELSE IF /\ Len(parts) = 2
            /\ AllDec(parts[1]) /\ AllDec(parts[2])
            /\ parts[1] \o parts[2] # <<>>
         THEN Num(DigitsValue(parts[1], 10) * 1000 + FracMilli(parts[2]))
    ELSE Raised("ValueError")

Negated(x) ==
    IF x.kind \in {"num", "inf"} THEN [x EXCEPT !.milli = 0 - x.milli] ELSE x

\* float(s): blanks around the literal and one sign are accepted
FloatOf(s) ==
    LET v == Strip(s) IN
    IF v # <<>> /\ Head(v) = "-" THEN Negated(UnsignedFloat(Tail(v)))
    ELSE IF v # <<>> /\ Head(v) = "+" THEN UnsignedFloat(Tail(v))
    ELSE UnsignedFloat(v)

\* int(x) of a float: truncation toward zero; OverflowError for inf,
\* ValueError for nan; an exception of float() passes through
IntOf(x) ==
    CASE x.kind = "num" ->
            Num((IF x.milli >= 0 THEN x.milli \div 1000 ELSE 0 - ((0 - x.milli) \div 1000)) * 1000)
      [] x.kind = "inf" -> Raised("OverflowError")
      [] x.kind = "nan" -> Raised("ValueError")
      [] OTHER -> x

\* x * k for a float x and an integer k
Times(x, k) ==
    CASE x.kind = "num" -> Num(x.milli * k)
      [] x.kind = "inf" -> Inf(IF k >= 0 THEN x.milli ELSE 0 - x.milli)
      [] OTHER -> x

\* a > b for floats (False when either is nan)
Greater(a, bMilli) ==
    CASE a.kind = "num" -> a.milli > bMilli
      [] a.kind = "inf" -> a.milli > 0
      [] OTHER -> FALSE

\* value.startswith(prefix), value.endswith(suffix)
StartsWith(value, prefix) ==
    Len(value) >= Len(prefix) /\ SubSeq(value, 1, Len(prefix)) = prefix
EndsWith(value, suffix) ==
    /\ Len(value) >= Len(suffix)
    /\ SubSeq(value, Len(value) - Len(suffix) + 1, Len(value)) = suffix

\* value.replace(old, ""), left to right
RECURSIVE Remove(_, _)
Remove(value, old) ==
    IF value = <<>> THEN <<>>
    ELSE IF StartsWith(value, old) THEN Remove(SubSeq(value, Len(old) + 1, Len(value)), old)
    ELSE <<Head(value)>> \o Remove(Tail(value), old)

\* [p.strip() for p in parts]
StripAll(parts) == [i \in 1..Len(parts) |-> Strip(parts[i])]

\* The index of the first ch in value, 0 when there is none.
IndexOf(value, ch) ==
    IF \E i \in 1..Len(value) : value[i] = ch
    THEN CHOOSE i \in 1..Len(value) : value[i] = ch /\ \A j \in 1..(i - 1) : value[j] # ch
    ELSE 0

\* re.match(r"rgba?\(([^)]+)\)", value).group(1), <<>> when there is no match
RgbaGroup(value) ==
    LET open == IF StartsWith(value, <<"r", "g", "b", "a", "(">>) THEN 5
                ELSE IF StartsWith(value, <<"r", "g", "b", "(">>) THEN 4
                ELSE 0
        rest == SubSeq(value, open + 1, Len(value))
        close == IndexOf(rest, ")")
    IN  IF open = 0 \/ close < 2 THEN <<>> ELSE SubSeq(rest, 1, close - 1)

\* re.match(r"#([0-9a-f]{3,8})", value).group(1), <<>> when there is no match
HexGroup(value) ==
    IF value = <<>> \/ Head(value) # "#" THEN <<>>
    ELSE LET rest == Tail(value)
             run == IF \E i \in 1..Len(rest) : ~IsHexDigit(rest[i])
                    THEN (CHOOSE i \in 1..Len(rest) :
                            ~IsHexDigit(rest[i]) /\ \A j \in 1..(i - 1) : IsHexDigit(rest[j])) - 1
                    ELSE Len(rest)
         IN  IF run < 3 THEN <<>> ELSE SubSeq(rest, 1, Min(run, 8))

\* A parsed colour (r, g, b, a): r, g, b integers, a a float.
Rgba(r, g, b, a) == [kind |-> "rgba", milli |-> 0, r |-> r, g |-> g, b |-> b, a |-> a]
NoneColor == [kind |-> "None", milli |-> 0, r |-> 0, g |-> 0, b |-> 0, a |-> None]
RaisedColor(e) == [kind |-> e, milli |-> 0, r |-> 0, g |-> 0, b |-> 0, a |-> None]

\* lines 267-277: the channels are converted in order inside try; the first
\* ValueError gives None, anything else raised leaves parse_color
RgbaFromParts(parts) ==
    LET r == IntOf(FloatOf(parts[1]))
        g == IntOf(FloatOf(parts[2]))
        b == IntOf(FloatOf(parts[3]))
        a == IF Len(parts) > 3 THEN FloatOf(parts[4]) ELSE Num(1000)
        first == IF r.kind \in ExceptionKinds THEN r
                 ELSE IF g.kind \in ExceptionKinds THEN g
                 ELSE IF b.kind \in ExceptionKinds THEN b
                 ELSE a
    IN  IF first.kind = "ValueError" THEN NoneColor
        ELSE IF first.kind \in ExceptionKinds THEN RaisedColor(first.kind)
        ELSE Rgba(r.milli \div 1000, g.milli \div 1000, b.milli \div 1000, a)

\* int(h[i] * 2, 16), int(h[i:i+2], 16), int(...) / 255.0
Doubled(c) == DigitsValue(<<c, c>>, 16)
Pair_Overlapping(h, i) == DigitsValue(SubSeq(h, (i + 1) \div 2, (i + 1) \div 2 + 1), 16)
Pair(h, i) == DigitsValue(SubSeq(h, i, i + 1), 16)
Over255(n) == Num((n * 1000) \div 255)

\* lines 279-292
RgbaFromHex(h) ==
    IF Len(h) \in {3, 4}
    THEN Rgba(Doubled(h[1]), Doubled(h[2]), Doubled(h[3]),
              IF Len(h) = 4 THEN Over255(Doubled(h[4])) ELSE Num(1000))
    ELSE IF Len(h) \in {6, 8}
    THEN Rgba(Pair(h, 1), Pair(h, 3), Pair(h, 5),
              IF Len(h) = 8 THEN Over255(Pair(h, 7)) ELSE Num(1000))
    ELSE NoneColor

\* parse_color(value), lines 260-293
parse_color(raw) ==
    LET value == Lower(Strip(raw))
        rgba == StripAll(Split(RgbaGroup(value), ","))
    IN  IF raw = <<>> THEN NoneColor
        ELSE IF value \in {<<"t", "r", "a", "n", "s", "p", "a", "r", "e", "n", "t">>, <<"n", "o", "n", "e">>} THEN NoneColor
        ELSE IF RgbaGroup(value) # <<>> /\ Len(rgba) >= 3 THEN RgbaFromParts(rgba)
        ELSE IF HexGroup(value) # <<>> THEN RgbaFromHex(HexGroup(value))
        ELSE NoneColor

\* str(n) for an integer n
RECURSIVE NatToStr(_)
NatToStr(n) ==
    IF n < 10 THEN <<DecDigits[n + 1]>>
    ELSE NatToStr(n \div 10) \o <<DecDigits[(n % 10) + 1]>>
IntToStr(n) == IF n < 0 THEN <<"-">> \o NatToStr(0 - n) ELSE NatToStr(n)

\* str(round(a, 3)) for a float below 0.999 kept in thousandths: the
\* fraction without its trailing zeros, at least one digit
MilliToStr(m) ==
    LET n == IF m < 0 THEN 0 - m ELSE m
        frac == SubSeq(NatToStr(1000 + (n % 1000)), 2, 4)
        cut == RStripOf(frac, {"0"})
    IN  (IF m < 0 THEN <<"-">> ELSE <<>>) \o NatToStr(n \div 1000) \o <<".">>
            \o (IF cut = <<>> THEN <<"0">> ELSE cut)
FloatToStr(x) ==
    CASE x.kind = "num" -> MilliToStr(x.milli)
      [] x.kind = "inf" -> IF x.milli > 0 THEN <<"i", "n", "f">> ELSE <<"-", "i", "n", "f">>
      [] OTHER -> <<"n", "a", "n">>

\* color_to_string(rgba), lines 296-300
color_to_string(rgba) ==
    IF Greater(rgba.a, 998)
    THEN <<"r", "g", "b", "(">> \o IntToStr(rgba.r) \o <<",", " ">> \o IntToStr(rgba.g) \o <<",", " ">>
            \o IntToStr(rgba.b) \o <<")">>
    ELSE <<"r", "g", "b", "a", "(">> \o IntToStr(rgba.r) \o <<",", " ">> \o IntToStr(rgba.g) \o <<",", " ">>
            \o IntToStr(rgba.b) \o <<",", " ">> \o FloatToStr(rgba.a) \o <<")">>

(***************************************************************************)
(* build_accessibility                                                     *)
(***************************************************************************)
\* sample["bbox"]: absent, or {width, height} in pixels.
NoBox == [present |-> FALSE, width |-> 0, height |-> 0]
Box(w, h) == [present |-> TRUE, width |-> w, height |-> h]
BoxKinds ==
    {NoBox, Box(40, 32), Box(48, 48), Box(44, 44), Box(43, 48), Box(48, 43), Box(0, 50),
     Box(50, 0)}

\* sample["computed"]["color"] and ["background-color"] as the browser
\* serializes them ("" when the key is absent).
ColorTexts ==
    {<<"r", "g", "b", "(", "0", ",", " ", "0", ",", " ", "0", ")">>,
     <<"o", "k", "l", "c", "h", "(", "0", ".", "5", " ", "0", ".", "2", " ", "2", "4", "0", ")">>,
     <<>>}
BackgroundTexts ==
    {<<"r", "g", "b", "(", "2", "5", "5", ",", " ", "2", "5", "5", ",", " ", "2", "5", "5", ")">>,
     <<"r", "g", "b", "a", "(", "0", ",", " ", "0", ",", " ", "0", ",", " ", "0", ")">>,
     <<"r", "g", "b", "a", "(", "2", "5", "5", ",", " ", "2", "5", "5", ",", " ", "2", "5", "5", ",", " ", "0", ".", "9", ")">>,
     <<"r", "g", "b", "a", "(", "2", "5", "5", ",", " ", "2", "5", "5", ",", " ", "2", "5", "5", ",", " ", "0", ".", "9", "5", ")">>,
     <<"c", "o", "l", "o", "r", "(", "s", "r", "g", "b", " ", "1", " ", "1", " ", "1", ")">>,
     <<"r", "g", "b", "a", "(", "0", ",", " ", "0", ",", " ", "0", ",", " ", "0", ".", "5", ")">>}

\* sample["states"]["focus_visible"]: absent, a snapshot, or the error mapping
FocusKinds == {"absent", "snapshot", "error"}

AccSample(box, focus_kind, color, background) ==
    [component_type |-> "button", bbox |-> box, focus_visible |-> focus_kind,
     color |-> color, background |-> background]

\* The samples of the batches: every bounding box, every focus state and
\* every colour pair, each varied with the others held at a plain value.
AccKinds ==
    {AccSample(b, "absent", <<"r", "g", "b", "(", "0", ",", " ", "0", ",", " ", "0", ")">>, <<"r", "g", "b", "(", "2", "5", "5", ",", " ", "2", "5", "5", ",", " ", "2", "5", "5", ")">>) : b \in BoxKinds}
    \cup {AccSample(Box(48, 48), f, <<"r", "g", "b", "(", "0", ",", " ", "0", ",", " ", "0", ")">>, <<"r", "g", "b", "(", "2", "5", "5", ",", " ", "2", "5", "5", ",", " ", "2", "5", "5", ")">>) : f \in FocusKinds}
    \cup {AccSample(Box(48, 48), "absent", c, g) : c \in ColorTexts, g \in BackgroundTexts}

AccInit ==
    /\ acc_samples \in SeqsUpTo(AccKinds, MaxAccSamples)
    /\ acc_i = 1
    /\ focus_rings = <<>>
    /\ target_sizes = <<>>
    /\ contrast_samples = <<>>
    /\ acc_pc = "loop"

AccIdle ==
    /\ acc_samples = <<>>
    /\ acc_i = 1
    /\ focus_rings = <<>>
    /\ target_sizes = <<>>
    /\ contrast_samples = <<>>
    /\ acc_pc = "idle"

\* lines 1856-1863: bbox.get("width") and bbox.get("height") are truthy, and
\* one of them is below 44
Undersized(box) ==
    /\ box.present
    /\ box.width # 0 /\ box.height # 0
    /\ (box.width < 44 \/ box.height < 44)

\* line 1878: fg and bg and bg[3] > 0.9
Contrasted_AnyAlpha(fg, bg) == fg.kind = "rgba" /\ bg.kind = "rgba"
Contrasted(fg, bg) == fg.kind = "rgba" /\ bg.kind = "rgba" /\ Greater(bg.a, 900)

\* lines 1854-1886: one iteration of the loop over self.samples; what
\* parse_color raises leaves build_accessibility
AccStep ==
    /\ acc_pc = "loop"
    /\ acc_i <= Len(acc_samples)
    /\ LET sample == acc_samples[acc_i]
           fg == parse_color(sample.color)
           bg == parse_color(sample.background)
       IN  /\ target_sizes' =
                IF Undersized(sample.bbox)
                THEN Append(target_sizes,
                            [id |-> acc_i, component |-> sample.component_type,
                             width |-> sample.bbox.width, height |-> sample.bbox.height])
                ELSE target_sizes
           /\ focus_rings' =
                IF sample.focus_visible = "snapshot"
                THEN Append(focus_rings, [id |-> acc_i])
                ELSE focus_rings
           /\ IF fg.kind \in ExceptionKinds \/ bg.kind \in ExceptionKinds
              THEN acc_pc' = "raised" /\ UNCHANGED <<contrast_samples, acc_i>>
              ELSE /\ contrast_samples' =
                        IF Contrasted(fg, bg)
                        THEN Append(contrast_samples,
                                    [id |-> acc_i, component |-> sample.component_type,
                                     fg |-> color_to_string(fg), bg |-> color_to_string(bg),
                                     ratio |-> <<"contrast_ratio", <<fg.r, fg.g, fg.b>>,
                                                 <<bg.r, bg.g, bg.b>> >>])
                        ELSE contrast_samples
                   /\ acc_i' = acc_i + 1
                   /\ UNCHANGED acc_pc
    /\ UNCHANGED acc_samples
    /\ OutsideAcc

\* lines 1888-1895
AccReturn ==
    /\ acc_pc = "loop"
    /\ acc_i > Len(acc_samples)
    /\ acc_pc' = "done"
    /\ UNCHANGED <<acc_samples, acc_i, focus_rings, target_sizes, contrast_samples>>
    /\ OutsideAcc

AccNext ==
    \/ AccStep
    \/ AccReturn

\* The entries of a result list that name sample i.
EntriesFor(list, i) == {k \in 1..Len(list) : list[k].id = i}

Parses(text) == parse_color(text).kind = "rgba"
NearOpaque(text) == Greater(parse_color(text).a, 900)

\* C19: build_accessibility emits a contrast sample for a sample if and only
\* if its computed color and background-color both parse and the background
\* alpha is > 0.9, and at most one per sample: a pair with a translucent or
\* unparseable background gets no ratio.
C19_Contrast ==
    acc_pc \in {"loop", "done"} =>
        \A i \in 1..(acc_i - 1) :
            LET emitted == EntriesFor(contrast_samples, i)
                sample == acc_samples[i]
            IN  /\ Cardinality(emitted) <= 1
                /\ emitted # {} <=>
                      /\ Parses(sample.color)
                      /\ Parses(sample.background)
                      /\ NearOpaque(sample.background)

\* A batch is done in which a background of alpha 0.95 got a ratio and one of
\* alpha 0.9 got none.
C19_Witness ==
    /\ acc_pc = "done"
    /\ Len(acc_samples) = 2
    /\ Len(contrast_samples) = 1
    /\ \E i, k \in 1..2 :
          /\ Parses(acc_samples[i].color) /\ Parses(acc_samples[k].color)
          /\ parse_color(acc_samples[i].background).a = Num(950)
          /\ parse_color(acc_samples[k].background).a = Num(900)
          /\ contrast_samples[1].id = i

(***************************************************************************)
(* score_candidate.  Scores are kept in tenths.                            *)
(***************************************************************************)
\* line 995: the call-to-action lexicon
CtaLexicon ==
    <<<<"g", "e", "t", " ", "s", "t", "a", "r", "t", "e", "d">>,
     <<"s", "t", "a", "r", "t">>,
     <<"f", "r", "e", "e">>,
     <<"t", "r", "i", "a", "l">>,
     <<"s", "i", "g", "n", " ", "u", "p">>,
     <<"r", "e", "g", "i", "s", "t", "e", "r">>>>

\* meta["text"] of the candidates of the model
CandidateTexts ==
    {<<"G", "e", "t", " ", "S", "t", "a", "r", "t", "e", "d">>,
     <<"S", "t", "a", "r", "t", " ", "f", "r", "e", "e", " ", "t", "r", "i", "a", "l">>,
     <<"L", "e", "a", "r", "n", " ", "m", "o", "r", "e">>,
     <<"S", "I", "G", "N", " ", "U", "P">>,
     <<>>}

\* meta["bbox"]: areas 25000, 20000, 19999 and 2400, above the fold and at y = 900
CandidateBoxes ==
    {[width |-> w, height |-> 100, y |-> y] : w \in {250, 200, 24}, y \in {120, 900}}
        \cup {[width |-> 19999, height |-> 1, y |-> 120]}

\* computed["font-weight"], ["background-color"], ["background-image"]
FontWeights == {<<"8", "0", "0">>, <<"7", "0", "0">>, <<"4", "0", "0">>, <<"6", "9", "9", ".", "9">>, <<"b", "o", "l", "d">>, <<>>}
CandidateBackgrounds ==
    {<<"r", "g", "b", "(", "0", ",", " ", "0", ",", " ", "2", "5", "5", ")">>,
     <<"r", "g", "b", "a", "(", "0", ",", " ", "0", ",", " ", "0", ",", " ", "0", ")">>,
     <<"r", "g", "b", "a", "(", "2", "5", "5", ",", " ", "2", "5", "5", ",", " ", "2", "5", "5", ",", " ", "0", ")">>,
     <<"t", "r", "a", "n", "s", "p", "a", "r", "e", "n", "t">>,
     <<>>}
BackgroundImages ==
    {<<"n", "o", "n", "e">>,
     <<"l", "i", "n", "e", "a", "r", "-", "g", "r", "a", "d", "i", "e", "n", "t", "(", "r", "e", "d", ",", " ", "b", "l", "u", "e", ")">>,
     <<>>}

CandidateGroups == {"cta", "button", "nav", "headline", "text"}
ViewportHeights == {900, 844}

ScoreInit ==
    /\ \E t \in CandidateTexts, b \in CandidateBoxes : sc_meta = [text |-> t, bbox |-> b]
    /\ \E w \in FontWeights, g \in CandidateBackgrounds, i \in BackgroundImages :
          sc_computed = [font_weight |-> w, background_color |-> g, background_image |-> i]
    /\ sc_group \in CandidateGroups
    /\ sc_viewport_height \in ViewportHeights
    /\ sc_score = 0
    /\ sc_pc = "call"

ScoreIdle ==
    /\ sc_meta = [text |-> <<>>, bbox |-> [width |-> 24, height |-> 24, y |-> 0]]
    /\ sc_computed = [font_weight |-> <<>>, background_color |-> <<>>, background_image |-> <<>>]
    /\ sc_group = "text"
    /\ sc_viewport_height = 900
    /\ sc_score = 0
    /\ sc_pc = "idle"

\* lines 992-997: the points of the group, and of the lexicon (any(...): once)
GroupPoints(group) ==
    (IF group \in {"cta", "button"} THEN 25 ELSE 0)
    + (IF group \in {"headline"} THEN 20 ELSE 0)
    + (IF group \in {"nav"} THEN 10 ELSE 0)
\* The sum of the weights of the first n rules that hold.
RECURSIVE WeightSum(_, _)
WeightSum(rules, n) ==
    IF n = 0 THEN 0
    ELSE WeightSum(rules, n - 1) + (IF rules[n].holds THEN rules[n].weight ELSE 0)
LexiconPoints_PerWord(text) ==
    WeightSum([i \in 1..Len(CtaLexicon) |->
                  [holds |-> IsSubstring(CtaLexicon[i], text), weight |-> 30]],
              Len(CtaLexicon))
LexiconPoints(text) ==
    IF \E i \in 1..Len(CtaLexicon) : IsSubstring(CtaLexicon[i], text) THEN 30 ELSE 0

\* lines 1004-1009: int(float(font_weight)) >= 700, every exception passed over
HeavyWeight(font_weight) ==
    LET n == IntOf(FloatOf(Strip(font_weight))) IN n.kind = "num" /\ n.milli >= 700000

\* score_candidate(meta, computed, group, viewport_height), lines 983-1021
score_candidate(meta, computed, group, viewport_height) ==
    LET text == Lower(meta.text)
        area == meta.bbox.width * meta.bbox.height
        bg == Lower(computed.background_color)
        bg_img == Lower(computed.background_image)
    IN  GroupPoints(group)
        + LexiconPoints(text)
        + (IF area >= 20000 THEN 10 ELSE 0)
        + (IF meta.bbox.y < viewport_height THEN 10 ELSE 0)
        + (IF HeavyWeight(computed.font_weight) THEN 10 ELSE 0)
        + (IF bg # <<>> /\ bg \notin {<<"r", "g", "b", "a", "(", "0", ",", " ", "0", ",", " ", "0", ",", " ", "0", ")">>, <<"t", "r", "a", "n", "s", "p", "a", "r", "e", "n", "t">>} THEN 5 ELSE 0)
        + (IF bg_img # <<>> /\ bg_img # <<"n", "o", "n", "e">> THEN 10 ELSE 0)

ScoreCandidate ==
    /\ sc_pc = "call"
    /\ sc_score' = score_candidate(sc_meta, sc_computed, sc_group, sc_viewport_height)
    /\ sc_pc' = "done"
    /\ UNCHANGED <<sc_meta, sc_computed, sc_group, sc_viewport_height>>
    /\ OutsideScore

ScoreNext == ScoreCandidate

\* The rules of the score and their weights in tenths, as the claim lists them.
ScoreRules ==
    <<[holds |-> sc_group \in {"cta", "button"}, weight |-> 25],
     [holds |-> sc_group = "headline", weight |-> 20],
     [holds |-> sc_group = "nav", weight |-> 10],
     [holds |-> \E i \in 1..Len(CtaLexicon) : IsSubstring(CtaLexicon[i], Lower(sc_meta.text)),
      weight |-> 30],
     [holds |-> sc_meta.bbox.width * sc_meta.bbox.height >= 20000, weight |-> 10],
     [holds |-> sc_meta.bbox.y < sc_viewport_height, weight |-> 10],
     [holds |-> FloatOf(sc_computed.font_weight).kind = "num"
                    /\ FloatOf(sc_computed.font_weight).milli >= 700000, weight |-> 10],
     [holds |-> sc_computed.background_color # <<>>
                    /\ Lower(sc_computed.background_color) \notin {<<"r", "g", "b", "a", "(", "0", ",", " ", "0", ",", " ", "0", ",", " ", "0", ")">>, <<"t", "r", "a", "n", "s", "p", "a", "r", "e", "n", "t">>},
      weight |-> 5],
     [holds |-> sc_computed.background_image # <<>>
                    /\ Lower(sc_computed.background_image) # <<"n", "o", "n", "e">>, weight |-> 10]>>

\* C12: score_candidate returns the sum of the weights of the rules that
\* hold, each rule counted once: group cta/button 2.5, headline 2.0, nav 1.0,
\* a lexicon word in the text 3.0, area >= 20000 1.0, y above the fold 1.0,
\* font-weight >= 700 1.0, a background colour that is present and not
\* transparent 0.5, a background image that is present and not none 1.0.  A
\* cta candidate "Get Started" of area 25000, weight 800 and an opaque
\* background scores 8.0, and 9.0 above the fold.
C12_Score ==
    sc_pc = "done" =>
        /\ sc_score = WeightSum(ScoreRules, Len(ScoreRules))
        /\ (/\ sc_group = "cta"
            /\ sc_meta.text = <<"G", "e", "t", " ", "S", "t", "a", "r", "t", "e", "d">>
            /\ sc_meta.bbox.width * sc_meta.bbox.height = 25000
            /\ sc_computed = [font_weight |-> <<"8", "0", "0">>, background_color |-> <<"r", "g", "b", "(", "0", ",", " ", "0", ",", " ", "2", "5", "5", ")">>,
                              background_image |-> <<"n", "o", "n", "e">>])
           => sc_score = (IF sc_meta.bbox.y < sc_viewport_height THEN 90 ELSE 80)

\* The cta candidate of the claim, below the fold: 2.5 + 3.0 + 1.0 + 1.0 + 0.5.
C12_Witness ==
    /\ sc_pc = "done"
    /\ sc_group = "cta"
    /\ sc_meta = [text |-> <<"G", "e", "t", " ", "S", "t", "a", "r", "t", "e", "d">>, bbox |-> [width |-> 250, height |-> 100, y |-> 900]]
    /\ sc_computed = [font_weight |-> <<"8", "0", "0">>, background_color |-> <<"r", "g", "b", "(", "0", ",", " ", "0", ",", " ", "2", "5", "5", ")">>,
                      background_image |-> <<"n", "o", "n", "e">>]
    /\ sc_viewport_height = 844
    /\ sc_score = 80

(***************************************************************************)
(* cluster_tokens.  A Counter is the sequence of its [value, count] items   *)
(* in insertion order.                                                     *)
(***************************************************************************)
\* The computed styles of a plain element, as the browser serializes them.
PlainComputed ==
    ("color" :> <<"r", "g", "b", "(", "0", ",", " ", "0", ",", " ", "0", ")">>
     @@ "background-color" :> <<"r", "g", "b", "a", "(", "0", ",", " ", "0", ",", " ", "0", ",", " ", "0", ")">>
     @@ "border-color" :> <<"r", "g", "b", "(", "0", ",", " ", "0", ",", " ", "0", ")">>
     @@ "outline-color" :> <<"r", "g", "b", "(", "0", ",", " ", "0", ",", " ", "0", ")">>
     @@ "font-size" :> <<"1", "6", "p", "x">>
     @@ "line-height" :> <<"n", "o", "r", "m", "a", "l">>
     @@ "letter-spacing" :> <<"n", "o", "r", "m", "a", "l">>
     @@ "font-weight" :> <<"4", "0", "0">> @@ "padding-top" :> <<"0", "p", "x">>
     @@ "padding-right" :> <<"0", "p", "x">> @@ "padding-bottom" :> <<"0", "p", "x">>
     @@ "padding-left" :> <<"0", "p", "x">> @@ "margin-top" :> <<"0", "p", "x">>
     @@ "margin-right" :> <<"0", "p", "x">> @@ "margin-bottom" :> <<"0", "p", "x">>
     @@ "margin-left" :> <<"0", "p", "x">> @@ "gap" :> <<"n", "o", "r", "m", "a", "l">>
     @@ "border-radius" :> <<"0", "p", "x">> @@ "border-width" :> <<"0", "p", "x">>
     @@ "box-shadow" :> <<"n", "o", "n", "e">> @@ "transition-duration" :> <<"0", "s">>
     @@ "transition-timing-function" :> <<"e", "a", "s", "e">>
     @@ "transition-property" :> <<"a", "l", "l">> @@ "z-index" :> <<"a", "u", "t", "o">>)

\* One property of a computed mapping with another value: values a page can
\* have, values with blanks around them, and colour texts with an infinite
\* and with out-of-range channels.
ComputedVariations ==
    {<<"color", <<"r", "g", "b", "(", "2", "5", "5", ",", " ", "0", ",", " ", "0", ")">>>>,
     <<"background-color", <<"r", "g", "b", "a", "(", "0", ",", " ", "0", ",", " ", "0", ",", " ", "0", ".", "5", ")">>>>,
     <<"background-color", <<"r", "g", "b", "(", "2", "5", "5", ",", " ", "2", "5", "5", ",", " ", "2", "5", "5", ")">>>>,
     <<"outline-color", <<"r", "g", "b", "(", "i", "n", "f", ",", " ", "0", ",", " ", "0", ")">>>>,
     <<"border-color", <<"r", "g", "b", "(", "5", "1", "0", ",", " ", "0", ",", " ", "0", ")">>>>,
     <<"outline-color", <<"r", "g", "b", "(", "1", "0", "0", ",", " ", "1", "1", "0", ",", " ", "1", "0", "5", ")">>>>,
     <<"border-color", <<"o", "k", "l", "c", "h", "(", "0", ".", "5", " ", "0", ".", "2", " ", "2", "4", "0", ")">>>>,
     <<"font-size", <<"1", "4", "p", "x">>>>,
     <<"font-weight", <<"7", "0", "0">>>>,
     <<"padding-top", <<"8", "p", "x">>>>,
     <<"padding-top", <<" ", "0", "p", "x">>>>,
     <<"margin-left", <<"0">>>>,
     <<"margin-left", <<"0", " ">>>>,
     <<"gap", <<"8", "p", "x">>>>,
     <<"border-radius", <<"4", "p", "x">>>>,
     <<"border-radius", <<"0", "p", "x", " ">>>>,
     <<"border-width", <<"1", "p", "x">>>>,
     <<"border-width", <<" ", "0", "p", "x">>>>,
     <<"box-shadow", <<"0", "p", "x", " ", "1", "p", "x", " ", "2", "p", "x">>>>,
     <<"box-shadow", <<"n", "o", "n", "e", " ">>>>,
     <<"transition-duration", <<"0", ".", "2", "s">>>>,
     <<"transition-timing-function", <<"l", "i", "n", "e", "a", "r">>>>,
     <<"transition-property", <<"o", "p", "a", "c", "i", "t", "y", ",", " ", "c", "o", "l", "o", "r">>>>,
     <<"z-index", <<"1", "0">>>>,
     <<"z-index", <<" ", "a", "u", "t", "o">>>>,
     <<"z-index", <<"0", " ">>>>}

\* sample.get("computed", {}): the plain mapping, one of its variations, or {}.
EmptyComputed == [k \in {} |-> <<>>]
ClusterKinds ==
    {PlainComputed, EmptyComputed}
        \cup {[k \in DOMAIN PlainComputed |-> IF k = v[1] THEN v[2] ELSE PlainComputed[k]] :
                v \in ComputedVariations}

\* computed.get(key, "") / computed.get(key): "" and None are both <<>>
Get(computed, key) == IF key \in DOMAIN computed THEN computed[key] ELSE <<>>

\* The Counter after "counter[v] += 1" for every v of vals in turn: the
\* entries it had with their counts raised, then the new values in the order
\* of their first tally.
Occurrences(vals, v) == Cardinality({i \in 1..Len(vals) : vals[i] = v})
Inc(cnt, vals) ==
    LET Known(v) == \E i \in 1..Len(cnt) : cnt[i].value = v
        firsts == {i \in 1..Len(vals) :
                     ~Known(vals[i]) /\ \A j \in 1..(i - 1) : vals[j] # vals[i]}
        Rank(i) == Cardinality({j \in firsts : j <= i})
        At(k) == CHOOSE i \in firsts : Rank(i) = k
    IN  [i \in 1..Len(cnt) |->
            [value |-> cnt[i].value, count |-> cnt[i].count + Occurrences(vals, cnt[i].value)]]
        \o [k \in 1..Cardinality(firsts) |->
            [value |-> vals[At(k)], count |-> Occurrences(vals, vals[At(k)])]]

CounterNames ==
    {"color_neutrals", "color_accents", "color_opacity", "font_sizes", "line_heights",
     "letter_spacing", "font_weights", "spacing_values", "radius_values", "border_values",
     "shadow_values", "motion_durations", "motion_easings", "motion_properties",
     "z_index_values"}

\* lines 1565-1581: the Counters a run starts with; previous is what an
\* earlier run left
FreshCounters_Carried(previous) == previous
FreshCounters(previous) == [n \in CounterNames |-> <<>>]

\* rgba_to_hsl(r, g, b)[1] < 0.18, with the channels as integers: "neutral",
\* "accent", or the ZeroDivisionError of a zero denominator
Max3(a, b, c) == Max(a, Max(b, c))
Min3(a, b, c) == Min(a, Min(b, c))
color_is_neutral_GrayOnly(rgba) ==
    IF rgba.r = rgba.g /\ rgba.g = rgba.b THEN "neutral" ELSE "accent"
color_is_neutral(rgba) ==
    LET maxc == Max3(rgba.r, rgba.g, rgba.b)
        minc == Min3(rgba.r, rgba.g, rgba.b)
        den == IF maxc + minc <= 255 THEN maxc + minc ELSE 510 - maxc - minc
    IN  IF maxc = minc THEN "neutral"
        ELSE IF den = 0 THEN "ZeroDivisionError"
        ELSE IF den < 0 \/ 100 * (maxc - minc) < 18 * den THEN "neutral"
        ELSE "accent"

\* color[3] < 1
BelowOne(a) ==
    CASE a.kind = "num" -> a.milli < 1000
      [] a.kind = "inf" -> a.milli < 0
      [] OTHER -> FALSE

\* One tally "counter[value] += 1" of the loop body
Tally(name, value) == [name |-> name, value |-> value]

\* lines 1593-1602: the body of the loop over [fg, bg, border, outline]
TallyColor(color) ==
    IF color.kind # "rgba" THEN <<>>
    ELSE <<Tally(IF color_is_neutral(color) = "neutral" THEN "color_neutrals"
                 ELSE "color_accents",
                 color_to_string(color))>>
         \o (IF BelowOne(color.a) THEN <<Tally("color_opacity", FloatToStr(color.a))>>
             ELSE <<>>)

\* A loop "for key in keys: val = computed.get(key); if val and val not in
\* sentinels: counter[val.strip()] += 1"
TallyKeys(computed, keys, name, sentinels) ==
    LET Counted(key) == Get(computed, key) # <<>> /\ Get(computed, key) \notin sentinels
        counted == SelectSeq(keys, Counted)
    IN  [i \in 1..Len(counted) |-> Tally(name, Strip(Get(computed, counted[i])))]

\* lines 1645-1650: the properties of transition-property
TallyProps(props) ==
    LET parts == StripAll(Split(props, ","))
        NonEmpty(prop) == prop # <<>>
        kept == SelectSeq(parts, NonEmpty)
    IN  [i \in 1..Len(kept) |-> Tally("motion_properties", kept[i])]

SpacingKeys ==
    <<"padding-top", "padding-right", "padding-bottom", "padding-left", "margin-top",
      "margin-right", "margin-bottom", "margin-left", "gap">>

\* lines 1588-1591: the four colours, parsed before any is tallied
ColorsOf(computed) ==
    <<parse_color(Get(computed, "color")), parse_color(Get(computed, "background-color")),
      parse_color(Get(computed, "border-color")), parse_color(Get(computed, "outline-color"))>>

\* The exception that leaves the loop body for a sample with these colours,
\* "" when none.
SampleException(colors) ==
    IF \E i \in 1..4 : colors[i].kind \in ExceptionKinds
    THEN colors[CHOOSE i \in 1..4 : colors[i].kind \in ExceptionKinds].kind
    ELSE IF \E i \in 1..4 :
                colors[i].kind = "rgba" /\ color_is_neutral(colors[i]) = "ZeroDivisionError"
    THEN "ZeroDivisionError"
    ELSE ""

\* lines 1583-1657: the tallies of the loop body for one sample, in order
TallySample(computed, colors) ==
    IF DOMAIN computed = {} THEN <<>>
    ELSE TallyColor(colors[1]) \o TallyColor(colors[2]) \o TallyColor(colors[3])
         \o TallyColor(colors[4])
         \o TallyKeys(computed, <<"font-size">>, "font_sizes", {})
         \o TallyKeys(computed, <<"line-height">>, "line_heights", {})
         \o TallyKeys(computed, <<"letter-spacing">>, "letter_spacing", {})
         \o TallyKeys(computed, <<"font-weight">>, "font_weights", {})
         \o TallyKeys(computed, SpacingKeys, "spacing_values", {<<"0", "p", "x">>, <<"0">>})
         \o TallyKeys(computed, <<"border-radius">>, "radius_values", {<<"0", "p", "x">>})
         \o TallyKeys(computed, <<"border-width">>, "border_values", {<<"0", "p", "x">>})
         \o TallyKeys(computed, <<"box-shadow">>, "shadow_values", {<<"n", "o", "n", "e">>})
         \o TallyKeys(computed, <<"transition-duration">>, "motion_durations", {<<"0", "s">>})
         \o TallyKeys(computed, <<"transition-timing-function">>, "motion_easings",
                      {<<"e", "a", "s", "e">>})
         \o (IF Get(computed, "transition-property") \notin {<<>>, <<"a", "l", "l">>}
             THEN TallyProps(Get(computed, "transition-property"))
             ELSE <<>>)
         \o TallyKeys(computed, <<"z-index">>, "z_index_values",
                      {<<"a", "u", "t", "o">>, <<"0">>})

\* The values among tallies that go to the Counter name, in order
ValuesFor(tallies, name) ==
    LET ForName(t) == t.name = name
        mine == SelectSeq(tallies, ForName)
    IN  [i \in 1..Len(mine) |-> mine[i].value]

\* lines 1659-1710: split_counter of every Counter, put into the categories
Top(c, name) == split_counter_top(c[name], DefaultTopN)
Out(c, name) == split_counter_outliers(c[name], DefaultTopN)
ClusterResult(c) ==
    [color |-> [neutrals |-> Top(c, "color_neutrals"), accents |-> Top(c, "color_accents"),
                opacity |-> Top(c, "color_opacity"),
                outliers |-> Out(c, "color_neutrals") \o Out(c, "color_accents")
                                \o Out(c, "color_opacity")],
     typography |-> [scale |-> Top(c, "font_sizes"), line_heights |-> Top(c, "line_heights"),
                     letter_spacing |-> Top(c, "letter_spacing"),
                     weights |-> Top(c, "font_weights"),
                     outliers |-> Out(c, "font_sizes") \o Out(c, "line_heights")
                                     \o Out(c, "letter_spacing") \o Out(c, "font_weights")],
     spacing |-> [scale |-> Top(c, "spacing_values"), outliers |-> Out(c, "spacing_values")],
     radius |-> [scale |-> Top(c, "radius_values"), outliers |-> Out(c, "radius_values")],
     border_width |-> [scale |-> Top(c, "border_values"), outliers |-> Out(c, "border_values")],
     shadow |-> [scale |-> Top(c, "shadow_values"), outliers |-> Out(c, "shadow_values")],
     motion |-> [durations |-> Top(c, "motion_durations"),
                 easings |-> Top(c, "motion_easings"),
                 properties |-> Top(c, "motion_properties"),
                 outliers |-> Out(c, "motion_durations") \o Out(c, "motion_easings")
                                 \o Out(c, "motion_properties")],
     z_index |-> [scale |-> Top(c, "z_index_values"), outliers |-> Out(c, "z_index_values")]]

ClusterInit ==
    /\ cl_samples \in SeqsUpTo(ClusterKinds, MaxClusterSamples)
    /\ cl_samples0 = cl_samples
    /\ cl_run = 1
    /\ cl_i = 1
    /\ cl_counters = FreshCounters([n \in CounterNames |-> <<>>])
    /\ cl_colors = <<>>
    /\ cl_results = <<>>
    /\ cl_pc = "loop"

ClusterIdle ==
    /\ cl_samples = <<>>
    /\ cl_samples0 = <<>>
    /\ cl_run = 1
    /\ cl_i = 1
    /\ cl_counters = [n \in CounterNames |-> <<>>]
    /\ cl_colors = <<>>
    /\ cl_results = <<>>
    /\ cl_pc = "idle"

\* What follows the end of a run: the second run starts with its own
\* Counters, or both runs are over.
EndRun(outcome) ==
    /\ cl_results' = Append(cl_results, outcome)
    /\ IF cl_run = 1
       THEN /\ cl_run' = 2
            /\ cl_i' = 1
            /\ cl_counters' = FreshCounters(cl_counters)
            /\ cl_colors' = <<>>
            /\ UNCHANGED cl_pc
       ELSE /\ cl_pc' = "done"
            /\ UNCHANGED <<cl_run, cl_i, cl_counters, cl_colors>>

\* One iteration of the loop over self.samples; an exception ends the run.
ClusterStep ==
    /\ cl_pc = "loop"
    /\ cl_i <= Len(cl_samples)
    /\ \E colors \in {ColorsOf(cl_samples[cl_i])} :
         IF DOMAIN cl_samples[cl_i] # {} /\ SampleException(colors) # ""
         THEN EndRun([raised |-> SampleException(colors)])
         ELSE \E tallies \in {TallySample(cl_samples[cl_i], colors)} :
                /\ cl_counters' = [n \in CounterNames |->
                                     Inc(cl_counters[n], ValuesFor(tallies, n))]
                /\ cl_colors' = cl_colors
                                    \o (IF DOMAIN cl_samples[cl_i] = {} THEN <<>> ELSE colors)
                /\ cl_i' = cl_i + 1
                /\ UNCHANGED <<cl_run, cl_results, cl_pc>>
    /\ UNCHANGED <<cl_samples, cl_samples0>>
    /\ OutsideCluster

\* The loop is over: the Counters are split and the tokens returned.
ClusterReturn ==
    /\ cl_pc = "loop"
    /\ cl_i > Len(cl_samples)
    /\ EndRun([primitive |-> ClusterResult(cl_counters)])
    /\ UNCHANGED <<cl_samples, cl_samples0>>
    /\ OutsideCluster

ClusterNext ==
    \/ ClusterStep
    \/ ClusterReturn

ValuesOf(entries) == {entries[i].value : i \in 1..Len(entries)}

\* C20: after cluster_tokens no entry of the spacing lists has value "0px" or
\* "0", none of the radius and border-width lists has "0px", none of the
\* shadow lists has "none" and none of the z-index lists has "auto" or "0",
\* whatever blanks surround the raw computed values.
C20_NoSentinels ==
    \A run \in 1..Len(cl_results) :
        "primitive" \in DOMAIN cl_results[run] =>
            LET p == cl_results[run].primitive
                Of(bucket) == ValuesOf(bucket.scale \o bucket.outliers)
            IN  /\ Of(p.spacing) \cap {<<"0", "p", "x">>, <<"0">>} = {}
                /\ Of(p.radius) \cap {<<"0", "p", "x">>} = {}
                /\ Of(p.border_width) \cap {<<"0", "p", "x">>} = {}
                /\ Of(p.shadow) \cap {<<"n", "o", "n", "e">>} = {}
                /\ Of(p.z_index) \cap {<<"a", "u", "t", "o">>, <<"0">>} = {}

(***************************************************************************)
(* parse_length, parse_duration and the calls of the parsers                *)
(***************************************************************************)

\* try: return <x>  except ValueError: return None
Caught(x) == IF x.kind = "ValueError" THEN None ELSE x

\* parse_length(value, root_font_size), lines 308-334
parse_length(raw, root_font_size) ==
    LET value == Lower(Strip(raw)) IN
    IF raw = <<>> THEN None
    ELSE IF value \in {<<"a", "u", "t", "o">>, <<"n", "o", "r", "m", "a", "l">>,
                       <<"n", "o", "n", "e">>}
    THEN None
    ELSE IF EndsWith(value, <<"p", "x">>)
    THEN Caught(FloatOf(Remove(value, <<"p", "x">>)))
    ELSE IF EndsWith(value, <<"r", "e", "m">>)
    THEN Caught(Times(FloatOf(Remove(value, <<"r", "e", "m">>)), root_font_size))
    ELSE IF EndsWith(value, <<"e", "m">>)
    THEN Caught(Times(FloatOf(Remove(value, <<"e", "m">>)), root_font_size))
    ELSE IF EndsWith(value, <<"%">>) THEN None
    ELSE Caught(FloatOf(value))

\* parse_duration(value), lines 337-351
parse_duration(raw) ==
    LET value == Lower(Strip(raw)) IN
    IF raw = <<>> THEN None
    ELSE IF EndsWith(value, <<"m", "s">>) THEN Caught(FloatOf(Remove(value, <<"m", "s">>)))
    ELSE IF EndsWith(value, <<"s">>) THEN Caught(Times(FloatOf(Remove(value, <<"s">>)), 1000))
    ELSE None

\* The 6-digit hex colours of the calls: three byte pairs of upper-case,
\* lower-case and mixed digits.
HexPairs ==
    {<<"0", "0">>, <<"f", "f">>, <<"F", "F">>, <<"8", "0">>, <<"0", "a">>, <<"A", "0">>,
     <<"7", "f">>, <<"f", "E">>}
HexColors == {<<"#">> \o rr \o gg \o bb : rr \in HexPairs, gg \in HexPairs, bb \in HexPairs}

\* The other argument strings: colours, lengths and durations a page can have,
\* the empty string, and texts that are none of them, among them rgb()
\* literals with non-numeric, infinite and out-of-range channels.
ColorArguments ==
    {<<"r", "g", "b", "(", "0", ",", " ", "0", ",", " ", "0", ")">>,
     <<"r", "g", "b", "a", "(", "0", ",", " ", "0", ",", " ", "0", ",", " ", "0", ".", "5", ")">>,
     <<"r", "g", "b", "(", "x", ",", " ", "0", ",", " ", "0", ")">>,
     <<"r", "g", "b", "(", "i", "n", "f", ",", " ", "0", ",", " ", "0", ")">>,
     <<"r", "g", "b", "(", "0", ",", " ", "-", "i", "n", "f", ",", " ", "0", ")">>,
     <<"r", "g", "b", "(", "n", "a", "n", ",", " ", "0", ",", " ", "0", ")">>,
     <<"r", "g", "b", "(", "3", "0", "0", ",", " ", "2", "1", "0", ",", " ", "0", ")">>,
     <<"r", "g", "b", "a", "(", "0", ",", " ", "0", ",", " ", "0", ",", " ", "i", "n", "f", ")">>,
     <<"r", "g", "b", "(", "0", ",", " ", "0", ")">>,
     <<"r", "g", "b", "(", ")">>,
     <<"t", "r", "a", "n", "s", "p", "a", "r", "e", "n", "t">>,
     <<"n", "o", "n", "e">>,
     <<"#", "f", "f", "f">>,
     <<"#", "f", "8", "0", "c">>,
     <<"#", "1", "2", "3", "4", "5">>,
     <<"#", "f", "f", "8", "0", "0", "0", "8", "0">>,
     <<"r", "e", "d">>,
     <<" ", "#", "F", "F", "8", "0", "0", "0", " ">>,
     <<"o", "k", "l", "c", "h", "(", "0", ".", "5", " ", "0", ".", "2", " ", "2", "4", "0", ")">>}
LengthArguments ==
    {<<"1", "6", "p", "x">>,
     <<"1", ".", "5", "r", "e", "m">>,
     <<"2", "e", "m">>,
     <<"5", "0", "%">>,
     <<"a", "u", "t", "o">>,
     <<"n", "o", "r", "m", "a", "l">>,
     <<"1", "2">>,
     <<"1", ".", "5">>,
     <<"-", "4", "p", "x">>,
     <<" ", "8", "p", "x", " ">>,
     <<"1", "2", "P", "X">>,
     <<"a", "b", "c">>,
     <<"p", "x">>,
     <<"1", "p", "x", "p", "x">>,
     <<"p", "x", "1", "p", "x">>,
     <<"4", "p", "x", " ", "8", "p", "x">>,
     <<"1", " ", "p", "x">>,
     <<"i", "n", "f">>,
     <<"1", "e", "m", "r", "e", "m">>,
     <<" ", " ">>}
DurationArguments ==
    {<<"0", ".", "2", "s">>,
     <<"2", "0", "0", "m", "s">>,
     <<"0", "s">>,
     <<"s">>,
     <<"m", "s">>,
     <<"1", "s", "2", "s">>,
     <<"f", "a", "s", "t">>,
     <<"1", ".", "5">>}
ParseArguments ==
    HexColors \cup ColorArguments \cup LengthArguments \cup DurationArguments \cup {<<>>}

\* root_font_size: the default, and another one
RootFontSizes == {DefaultRootFontSize, 10}

ParseInit ==
    /\ pr_raw \in ParseArguments
    /\ pr_root \in RootFontSizes
    /\ pr_fn = ""
    /\ pr_result = None
    /\ pr_string = <<>>
    /\ pr_pc = "input"

ParseIdle ==
    /\ pr_raw = <<>>
    /\ pr_root = DefaultRootFontSize
    /\ pr_fn = ""
    /\ pr_result = None
    /\ pr_string = <<>>
    /\ pr_pc = "idle"

\* The parser fn leaves its call with result.
Parsed(fn, result) ==
    /\ pr_fn' = fn
    /\ pr_result' = result
    /\ pr_pc' = "parsed"
    /\ UNCHANGED <<pr_raw, pr_root, pr_string>>
    /\ OutsideParse

ParseColor ==
    /\ pr_pc = "input"
    /\ Parsed("parse_color", parse_color(pr_raw))

ParseLength ==
    /\ pr_pc = "input"
    /\ Parsed("parse_length", parse_length(pr_raw, pr_root))

ParseDuration ==
    /\ pr_pc = "input"
    /\ Parsed("parse_duration", parse_duration(pr_raw))

\* color_to_string of the colour that parse_color returned
ColorToString ==
    /\ pr_pc = "parsed"
    /\ pr_fn = "parse_color"
    /\ pr_result.kind = "rgba"
    /\ pr_string' = color_to_string(pr_result)
    /\ pr_pc' = "stringified"
    /\ UNCHANGED <<pr_raw, pr_root, pr_fn, pr_result>>
    /\ OutsideParse

ParseNext ==
    \/ ParseColor
    \/ ParseLength
    \/ ParseDuration
    \/ ColorToString

\* C16: for every input string parse_color, parse_length and parse_duration
\* return a parsed value or null and never raise, rgb()/rgba() literals with
\* non-numeric, infinite and out-of-range channels included.
C16_NeverRaises ==
    pr_pc \in {"parsed", "stringified"} =>
        pr_result.kind \in {"rgba", "num", "inf", "nan", "None"}

\* The value of a hex digit of either case, and of the byte pair at x[i].
UpperHexDigits == DecDigits \o <<"A", "B", "C", "D", "E", "F">>
HexDigitValue(c) ==
    IF IsHexDigit(c) THEN DigitValue(c)
    ELSE (CHOOSE k \in 1..Len(UpperHexDigits) : UpperHexDigits[k] = c) - 1
ByteAt(x, i) == 16 * HexDigitValue(x[i]) + HexDigitValue(x[i + 1])

\* x is #RRGGBB with upper- or lower-case hex digits
IsHexColor(x) ==
    /\ Len(x) = 7
    /\ x[1] = "#"
    /\ \A i \in 2..7 : \E k \in 1..Len(HexDigits) : x[i] \in {HexDigits[k], UpperHexDigits[k]}

\* C17: for every 6-digit hex colour #RRGGBB, of upper- or lower-case digits,
\* parse_color gives alpha 1.0 and color_to_string of it is "rgb(R, G, B)" with
\* R, G, B the decimal values of the three byte pairs.
C17_HexRoundTrip ==
    (pr_fn = "parse_color" /\ IsHexColor(pr_raw)) =>
        /\ pr_result.kind = "rgba"
        /\ pr_result.a = Num(1000)
        /\ pr_pc = "stringified" =>
              pr_string = <<"r", "g", "b", "(">> \o IntToStr(ByteAt(pr_raw, 2)) \o <<",", " ">>
                              \o IntToStr(ByteAt(pr_raw, 4)) \o <<",", " ">>
                              \o IntToStr(ByteAt(pr_raw, 6)) \o <<")">>

\* #fE800a went through parse_color and color_to_string.
C17_Witness ==
    /\ pr_pc = "stringified"
    /\ pr_raw = <<"#", "f", "E", "8", "0", "0", "a">>
    /\ pr_string = <<"r", "g", "b", "(", "2", "5", "4", ",", " ", "1", "2", "8", ",", " ", "1", "0", ")">>

\* The literal of the claim: N followed by unit, N being what float() reads
\* as a number; and the number N of such a literal.
IsNumber(text) == FloatOf(text).kind \in {"num", "inf", "nan"}
WithoutSuffix(value, unit) == SubSeq(value, 1, Len(value) - Len(unit))
HasUnit(value, unit) == EndsWith(value, unit) /\ IsNumber(WithoutSuffix(value, unit))

\* What the claim gives for a raw text: by its unit suffix, N for N px,
\* N * root_font_size for N rem and N em, the number for a bare number, null
\* for auto, normal, none, a percentage and any other text.
LengthByUnit(raw, root_font_size) ==
    LET value == Lower(Strip(raw)) IN
    IF HasUnit(value, <<"p", "x">>) THEN FloatOf(WithoutSuffix(value, <<"p", "x">>))
    ELSE IF HasUnit(value, <<"r", "e", "m">>)
    THEN Times(FloatOf(WithoutSuffix(value, <<"r", "e", "m">>)), root_font_size)
    ELSE IF HasUnit(value, <<"e", "m">>)
    THEN Times(FloatOf(WithoutSuffix(value, <<"e", "m">>)), root_font_size)
    ELSE IF IsNumber(value) THEN FloatOf(value)
    ELSE None

\* C18: parse_length resolves a literal by its unit suffix: N px gives N,
\* N rem and N em give N times root_font_size, a bare number itself, and auto,
\* normal, none, any percentage and any other text null; with root size 16,
\* "1.5rem" gives 24.0 and "50%" gives null.
C18_ParseLength ==
    (pr_pc = "parsed" /\ pr_fn = "parse_length") =>
        /\ pr_result = LengthByUnit(pr_raw, pr_root)
        /\ (pr_raw = <<"1", ".", "5", "r", "e", "m">> /\ pr_root = DefaultRootFontSize)
              => pr_result = Num(24000)
        /\ pr_raw = <<"5", "0", "%">> => pr_result = None

(***************************************************************************)
(* collect_candidates and collect_samples: discovery, caps, deduplication    *)
(***************************************************************************)

\* selector_groups of collect_candidates (lines 1031-1040) and of
\* collect_samples (lines 1110-1131), in the order of the dict
CandidateSelectorGroups ==
    <<[group |-> "cta",
       selectors |-> <<".hero__cta a", ".btn.btn-primary", ".btn-primary", "a.btn", "button">>],
      [group |-> "button",
       selectors |-> <<"button", "a", "[role='button']", ".btn">>],
      [group |-> "nav",
       selectors |-> <<"nav a", "header a", "[role='navigation'] a">>],
      [group |-> "headline",
       selectors |-> <<"h1", "h2">>],
      [group |-> "text",
       selectors |-> <<"p">>],
      [group |-> "media",
       selectors |-> <<"img", "video", "picture">>],
      [group |-> "card",
       selectors |-> <<"article", ".card", "[class*='card']">>],
      [group |-> "tag",
       selectors |-> <<".tag", ".badge", ".pill", "[class*='tag']", "[class*='pill']", "[class*='badge']">>]>>
SampleSelectorGroups ==
    <<[group |-> "typography",
       selectors |-> <<"h1", "h2", "p", "small", "label">>],
      [group |-> "navbar",
       selectors |-> <<"header", "nav", "[role='navigation']">>],
      [group |-> "nav_link",
       selectors |-> <<"nav a", "[role='navigation'] a", "header a">>],
      [group |-> "container",
       selectors |-> <<"main", "[role='main']", ".container", ".content", "#root", "#app">>],
      [group |-> "card",
       selectors |-> <<"article", ".card", "[class*='card']", "[role='listitem']">>],
      [group |-> "grid_container",
       selectors |-> <<"[class*='grid']", ".grid", "[role='list']", ".list">>],
      [group |-> "input",
       selectors |-> <<"input", "textarea", "select", "[role='searchbox']", "form input">>],
      [group |-> "chip",
       selectors |-> <<".chip", ".tag", ".badge", ".pill", "[class*='chip']">>],
      [group |-> "button",
       selectors |-> <<"button", "a[class*='button']", "a.btn", "a.btn-primary", ".btn.btn-primary", ".btn-primary", ".btn", "[role='button']", ".button", ".hero__cta a">>]>>
SelectorGroups(fn) ==
    IF fn = "collect_candidates" THEN CandidateSelectorGroups ELSE SampleSelectorGroups
MaxPerGroup(fn) ==
    IF fn = "collect_candidates" THEN CandidatesMaxPerGroup ELSE SamplesMaxPerGroup

\* re.sub(r"\s+", " ", text): a run of blanks becomes one blank
RECURSIVE CollapseBlanks(_)
CollapseBlanks(text) ==
    IF Len(text) < 2 THEN text
    ELSE IF text[1] = " " /\ text[2] = " " THEN CollapseBlanks(Tail(text))
    ELSE <<text[1]>> \o CollapseBlanks(Tail(text))

\* normalize_text(text, limit), lines 149-151
normalize_text(text, limit) == SliceTo(Strip(CollapseBlanks(text)), limit)

\* round(x, 1) of a length kept in hundredths, in tenths (a tie goes to the
\* even tenth)
Round1(x) ==
    IF x % 10 < 5 THEN x \div 10
    ELSE IF x % 10 > 5 THEN x \div 10 + 1
    ELSE IF (x \div 10) % 2 = 0 THEN x \div 10 ELSE x \div 10 + 1

\* An element of the page: the selectors it matches, its textContent, its
\* bounding box in hundredths of a pixel (box FALSE: no box), whether it is
\* displayed, visible and not transparent, whether it has a role or an
\* aria-label, and what is_chip_like answers for it.
Element(matches, text, width, height) ==
    [matches |-> matches, text |-> text, box |-> TRUE, width |-> width, height |-> height,
     shown |-> TRUE, labelled |-> FALSE, chip_like |-> FALSE]

GoOn == Element({"button"}, <<"G", "o", " ", "o", "n">>, 10001, 4000)
ElementKinds ==
    {GoOn,
     Element({"button"}, <<"G", "o", " ", " ", "o", "n", " ">>, 10004, 4000),
     Element({"button"}, <<"G", "o", " ", "o", "n">>, 10006, 4000),
     Element({"a", "a.btn", ".btn", ".btn-primary"}, <<"B", "u", "y">>, 12000, 4000),
     Element({"h1"}, <<"T", "i", "t", "l", "e">>, 30000, 6000),
     Element({"img"}, <<>>, 20000, 10000),
     [Element({".tag", ".badge"}, <<"N", "e", "w">>, 6000, 2400) EXCEPT !.chip_like = TRUE],
     Element({".tag"}, <<"O", "l", "d">>, 6000, 6000),
     Element({"button"}, <<"x">>, 2000, 2000),
     [GoOn EXCEPT !.shown = FALSE],
     [GoOn EXCEPT !.box = FALSE]}

\* A page of n buttons, every one of another width, but the third too small
\* and the fifth a copy of the first.
Crowd(n) ==
    [i \in 1..n |->
        IF i = 3 THEN Element({"button"}, <<"x">>, 2000, 2000)
        ELSE IF i = 5 THEN Element({"button"}, <<"G", "o", " ", "o", "n">>, 10100, 4000)
        ELSE Element({"button"}, <<"G", "o", " ", "o", "n">>, (100 + i) * 100, 4000)]
CrowdSizes == {7, 8, 9, 13, 14, 15}
Pages ==
    SeqsUpTo(ElementKinds, MaxPageElements)
        \cup {Crowd(n) : n \in CrowdSizes}
        \cup {Crowd(n) \o <<Element({"a", "a.btn", ".btn", ".btn-primary"}, <<"B", "u", "y">>, 12000, 4000)>> :
                n \in CrowdSizes}

\* page.query_selector_all(selector): the positions of the elements that
\* match, in document order
query_selector_all(page, selector) ==
    LET Matches(i) == selector \in page[i].matches
    IN  SelectSeq([i \in 1..Len(page) |-> i], Matches)

\* element_candidate_info(el, allow_empty_text), lines 915-953
NoMeta == [accepted |-> FALSE, text |-> <<>>, width |-> 0, height |-> 0]
element_candidate_info(el, allow_empty_text) ==
    IF ~el.box \/ el.width < 24 * 100 \/ el.height < 24 * 100 THEN NoMeta
    ELSE IF ~el.shown THEN NoMeta
    ELSE IF /\ ~allow_empty_text
            /\ normalize_text(Strip(el.text), TextLimit) = <<>>
            /\ ~el.labelled
    THEN NoMeta
    ELSE [accepted |-> TRUE, text |-> normalize_text(Strip(el.text), TextLimit),
          width |-> el.width, height |-> el.height]

\* lines 1058-1060 and 1146-1151: meta of the element for this group, NoMeta
\* when the loop continues with the next element
MetaFor(fn, group, el) ==
    LET meta == element_candidate_info(el, fn = "collect_candidates" /\ group = "media")
    IN  IF fn = "collect_samples" /\ group = "chip" /\ ~el.chip_like THEN NoMeta ELSE meta

\* dedupe_key, lines 1063 and 1154
dedupe_key_Unrounded(group, meta) == <<group, meta.text, meta.width, meta.height>>
dedupe_key(group, meta) == <<group, meta.text, Round1(meta.width), Round1(meta.height)>>

\* collected after "continue": a rejected or duplicate element
AfterContinue_Counted(collected) == collected + 1
AfterContinue(collected) == collected

\* The dict appended for an element (lines 1083-1098, 1170-1186):
\* selector_path is the position of the element in the page
Entry(group, selector, position, meta) ==
    [group |-> group, selector |-> selector, selector_path |-> position,
     text |-> meta.text, width |-> meta.width, height |-> meta.height]

DiscoverInit ==
    /\ dc_fn \in {"collect_candidates", "collect_samples"}
    /\ dc_page \in Pages
    /\ dc_g = 1
    /\ dc_s = 1
    /\ dc_elements = <<>>
    /\ dc_e = 1
    /\ dc_collected = 0
    /\ dc_seen = {}
    /\ dc_out = <<>>
    /\ dc_pc = "groups"

DiscoverIdle ==
    /\ dc_fn = ""
    /\ dc_page = <<>>
    /\ dc_g = 1
    /\ dc_s = 1
    /\ dc_elements = <<>>
    /\ dc_e = 1
    /\ dc_collected = 0
    /\ dc_seen = {}
    /\ dc_out = <<>>
    /\ dc_pc = "idle"

GroupNow == SelectorGroups(dc_fn)[dc_g]
SelectorNow == GroupNow.selectors[dc_s]
ElementNow == dc_page[dc_elements[dc_e]]
MetaNow == MetaFor(dc_fn, GroupNow.group, ElementNow)
CapReached == dc_collected >= MaxPerGroup(dc_fn)

\* for group, selectors in selector_groups.items(): collected = 0
BeginGroup ==
    /\ dc_pc = "groups"
    /\ dc_g <= Len(SelectorGroups(dc_fn))
    /\ dc_collected' = 0
    /\ dc_s' = 1
    /\ dc_pc' = "selectors"
    /\ UNCHANGED <<dc_fn, dc_page, dc_g, dc_elements, dc_e, dc_seen, dc_out>>
    /\ OutsideDiscover

\* return candidates / return samples
DiscoverReturn ==
    /\ dc_pc = "groups"
    /\ dc_g > Len(SelectorGroups(dc_fn))
    /\ dc_pc' = "done"
    /\ UNCHANGED <<dc_fn, dc_page, dc_g, dc_s, dc_elements, dc_e, dc_collected, dc_seen, dc_out>>
    /\ OutsideDiscover

\* for selector in selectors: over, or left by "if collected >= max_per_group:
\* break"
EndGroup ==
    /\ dc_pc = "selectors"
    /\ dc_s > Len(GroupNow.selectors) \/ CapReached
    /\ dc_g' = dc_g + 1
    /\ dc_pc' = "groups"
    /\ UNCHANGED <<dc_fn, dc_page, dc_s, dc_elements, dc_e, dc_collected, dc_seen, dc_out>>
    /\ OutsideDiscover

\* elements = await page.query_selector_all(selector)
QuerySelectorAll ==
    /\ dc_pc = "selectors"
    /\ dc_s <= Len(GroupNow.selectors)
    /\ ~CapReached
    /\ dc_elements' = query_selector_all(dc_page, SelectorNow)
    /\ dc_e' = 1
    /\ dc_pc' = "elements"
    /\ UNCHANGED <<dc_fn, dc_page, dc_g, dc_s, dc_collected, dc_seen, dc_out>>
    /\ OutsideDiscover

\* for el in elements: over, or left by "if collected >= max_per_group: break"
EndSelector ==
    /\ dc_pc = "elements"
    /\ dc_e > Len(dc_elements) \/ CapReached
    /\ dc_s' = dc_s + 1
    /\ dc_pc' = "selectors"
    /\ UNCHANGED <<dc_fn, dc_page, dc_g, dc_elements, dc_e, dc_collected, dc_seen, dc_out>>
    /\ OutsideDiscover

\* "if not meta: continue", "if not await self.is_chip_like(el, meta): continue"
Reject ==
    /\ dc_pc = "elements"
    /\ dc_e <= Len(dc_elements)
    /\ ~CapReached
    /\ ~MetaNow.accepted
    /\ dc_e' = dc_e + 1
    /\ dc_collected' = AfterContinue(dc_collected)
    /\ UNCHANGED <<dc_fn, dc_page, dc_g, dc_s, dc_elements, dc_seen, dc_out, dc_pc>>
    /\ OutsideDiscover

\* "if dedupe_key in seen_keys: continue"
DropDuplicate ==
    /\ dc_pc = "elements"
    /\ dc_e <= Len(dc_elements)
    /\ ~CapReached
    /\ MetaNow.accepted
    /\ dedupe_key(GroupNow.group, MetaNow) \in dc_seen
    /\ dc_e' = dc_e + 1
    /\ dc_collected' = AfterContinue(dc_collected)
    /\ UNCHANGED <<dc_fn, dc_page, dc_g, dc_s, dc_elements, dc_seen, dc_out, dc_pc>>
    /\ OutsideDiscover

\* seen_keys.add(dedupe_key) ... append(...); collected += 1
Keep ==
    /\ dc_pc = "elements"
    /\ dc_e <= Len(dc_elements)
    /\ ~CapReached
    /\ MetaNow.accepted
    /\ dedupe_key(GroupNow.group, MetaNow) \notin dc_seen
    /\ dc_seen' = dc_seen \cup {dedupe_key(GroupNow.group, MetaNow)}
    /\ dc_out' = Append(dc_out, Entry(GroupNow.group, SelectorNow, dc_elements[dc_e], MetaNow))
    /\ dc_collected' = dc_collected + 1
    /\ dc_e' = dc_e + 1
    /\ UNCHANGED <<dc_fn, dc_page, dc_g, dc_s, dc_elements, dc_pc>>
    /\ OutsideDiscover

DiscoverNext ==
    \/ BeginGroup
    \/ DiscoverReturn
    \/ EndGroup
    \/ QuerySelectorAll
    \/ EndSelector
    \/ Reject
    \/ DropDuplicate
    \/ Keep

\* The discovery order of a group: its selectors in their listed order, for
\* each the matching elements in document order. Discovered gives, for the
\* first s selectors, the entries of the elements that are accepted.
RECURSIVE Discovered(_, _, _, _)
Discovered(fn, page, grp, s) ==
    IF s = 0 THEN <<>>
    ELSE LET Accepted(i) == MetaFor(fn, grp.group, page[i]).accepted
             found == SelectSeq(query_selector_all(page, grp.selectors[s]), Accepted)
         IN  Discovered(fn, page, grp, s - 1)
                \o [k \in 1..Len(found) |->
                        Entry(grp.group, grp.selectors[s], found[k],
                              MetaFor(fn, grp.group, page[found[k]]))]

\* The key of the claims: (group or component type, normalized text, width
\* and height rounded to one decimal)
KeyOf(entry) == <<entry.group, entry.text, Round1(entry.width), Round1(entry.height)>>

\* The entries of a discovery order that repeat no key of an earlier one.
NonDuplicates(found) ==
    LET First(n) == \A j \in 1..(n - 1) : KeyOf(found[j]) # KeyOf(found[n])
        firsts == SelectSeq([n \in 1..Len(found) |-> n], First)
    IN  [k \in 1..Len(firsts) |-> found[firsts[k]]]

\* The entries of dc_out of the g-th group.
OutOf(g) ==
    LET InGroup(entry) == entry.group = SelectorGroups(dc_fn)[g].group
    IN  SelectSeq(dc_out, InGroup)

\* C14: a call returns at most 12 candidates per group and at most 6 samples
\* per component type: the first accepted, non-duplicate elements in
\* discovery order; rejected and duplicate elements do not count.
C14_Caps ==
    dc_pc = "done" =>
        \A g \in 1..Len(SelectorGroups(dc_fn)) :
            LET grp == SelectorGroups(dc_fn)[g]
                found == Discovered(dc_fn, dc_page, grp, Len(grp.selectors))
            IN  /\ Len(OutOf(g)) <= (IF dc_fn = "collect_candidates" THEN 12 ELSE 6)
                /\ OutOf(g) = SliceTo(NonDuplicates(found),
                                      IF dc_fn = "collect_candidates" THEN 12 ELSE 6)

\* A call is over that cut a group at its cap on a page with a rejected and a
\* duplicate element before the cut.
C14_Witness ==
    /\ dc_pc = "done"
    /\ \E g \in 1..Len(SelectorGroups(dc_fn)) :
          LET grp == SelectorGroups(dc_fn)[g]
              found == Discovered(dc_fn, dc_page, grp, Len(grp.selectors))
          IN  /\ Len(OutOf(g)) = MaxPerGroup(dc_fn)
              /\ Len(NonDuplicates(found)) > MaxPerGroup(dc_fn)
              /\ Len(found) > Len(NonDuplicates(found))
              /\ \E i \in 1..Len(dc_page) : ~MetaFor(dc_fn, grp.group, dc_page[i]).accepted

\* C15: no two returned entries of a call share the key; of the elements with
\* an equal key the first discovered is the one kept, and the later ones leave
\* no record.
C15_Dedup ==
    dc_pc = "done" =>
        /\ \A i, j \in 1..Len(dc_out) : KeyOf(dc_out[i]) = KeyOf(dc_out[j]) => i = j
        /\ \A g \in 1..Len(SelectorGroups(dc_fn)) :
              LET grp == SelectorGroups(dc_fn)[g]
                  found == Discovered(dc_fn, dc_page, grp, Len(grp.selectors))
              IN  \A i \in 1..Len(OutOf(g)) :
                    \E n \in 1..Len(found) :
                        /\ found[n] = OutOf(g)[i]
                        /\ \A m \in 1..(n - 1) : KeyOf(found[m]) # KeyOf(found[n])

\* A call is over on a page of two buttons of one key, the widths 100.01 and
\* 100.04: the first was kept for the button group, the second left nothing.
C15_Witness ==
    /\ dc_pc = "done"
    /\ Len(dc_page) = 2
    /\ dc_page[1].width = 10001 /\ dc_page[2].width = 10004
    /\ \E g \in 1..Len(SelectorGroups(dc_fn)) :
          /\ SelectorGroups(dc_fn)[g].group = "button"
          /\ Len(OutOf(g)) = 1
          /\ OutOf(g)[1].selector_path = 1

\* The parsed occurrences of the four colours in the samples the run has
\* tallied: the positions of cl_colors that hold a colour.
ParsedOccurrences == {o \in 1..Len(cl_colors) : cl_colors[o].kind = "rgba"}

\* HSL saturation < 0.18 of a colour with channels 0..255: the spread of the
\* channels over their sum, or over 510 less their sum for a lightness
\* above one half.
LowSaturation(rgba) ==
    LET hi == Max3(rgba.r, rgba.g, rgba.b)
        lo == Min3(rgba.r, rgba.g, rgba.b)
    IN  \/ hi = lo
        \/ hi + lo <= 255 /\ 100 * (hi - lo) < 18 * (hi + lo)
        \/ hi + lo > 255 /\ 100 * (hi - lo) < 18 * (510 - hi - lo)

\* The count of value v in a Counter, and the sum of the counts of one.
CountOf(cnt, v) ==
    IF \E i \in 1..Len(cnt) : cnt[i].value = v
    THEN cnt[CHOOSE i \in 1..Len(cnt) : cnt[i].value = v].count
    ELSE 0
RECURSIVE TotalCount(_, _)
TotalCount(cnt, n) == IF n = 0 THEN 0 ELSE TotalCount(cnt, n - 1) + cnt[n].count

\* C21: every parsed occurrence of the four colours is counted in exactly one
\* of the neutral and accent tallies, neutral exactly when its saturation is
\* < 0.18 (every gray is neutral), and in the opacity tally exactly when its
\* alpha is < 1; no colour string is in both tallies, and the neutral and
\* accent counts sum to the number of parsed occurrences.
C21_NeutralAccent ==
    cl_pc \in {"loop", "done"} =>
        LET neutrals == cl_counters["color_neutrals"]
            accents == cl_counters["color_accents"]
            opacity == cl_counters["color_opacity"]
            Named(s) == {o \in ParsedOccurrences : color_to_string(cl_colors[o]) = s}
            Faint(t) == {o \in ParsedOccurrences :
                            BelowOne(cl_colors[o].a) /\ FloatToStr(cl_colors[o].a) = t}
        IN  /\ \A s \in {color_to_string(cl_colors[o]) : o \in ParsedOccurrences}
                        \cup ValuesOf(neutrals) \cup ValuesOf(accents) :
                  /\ CountOf(neutrals, s)
                        = Cardinality({o \in Named(s) : LowSaturation(cl_colors[o])})
                  /\ CountOf(accents, s)
                        = Cardinality({o \in Named(s) : ~LowSaturation(cl_colors[o])})
            /\ \A o \in ParsedOccurrences :
                  (cl_colors[o].r = cl_colors[o].g /\ cl_colors[o].g = cl_colors[o].b)
                      => CountOf(neutrals, color_to_string(cl_colors[o])) > 0
            /\ \A t \in {FloatToStr(cl_colors[o].a) : o \in ParsedOccurrences}
                        \cup ValuesOf(opacity) :
                  CountOf(opacity, t) = Cardinality(Faint(t))
            /\ ValuesOf(neutrals) \cap ValuesOf(accents) = {}
            /\ TotalCount(neutrals, Len(neutrals)) + TotalCount(accents, Len(accents))
                  = Cardinality(ParsedOccurrences)

\* A run has tallied a gray, a faint-coloured and a strong colour, one of
\* them translucent.
C21_Witness ==
    /\ cl_pc = "done"
    /\ "primitive" \in DOMAIN cl_results[2]
    /\ CountOf(cl_counters["color_neutrals"], <<"r", "g", "b", "(", "1", "0", "0", ",", " ", "1", "1", "0", ",", " ", "1", "0", "5", ")">>) = 1
    /\ CountOf(cl_counters["color_accents"], <<"r", "g", "b", "(", "2", "5", "5", ",", " ", "0", ",", " ", "0", ")">>) = 1
    /\ cl_counters["color_opacity"] # <<>>


\* C25: an element met during discovery whose width or height is below the
\* 24px floor is not discarded: it, or an earlier element with its key, is
\* still emitted as a candidate or sample with its own box (the mark that it
\* is below the floor would be carried by that entry). Stated for the pages on
\* which no group reaches its cap.
C25_BelowFloorKept ==
    (dc_pc = "done" /\ Len(dc_page) <= MaxPageElements) =>
        \A p \in 1..Len(dc_page) :
            LET el == dc_page[p]
                text == normalize_text(Strip(el.text), TextLimit)
            IN  (/\ el.box /\ el.shown /\ text # <<>>
                 /\ el.width < 24 * 100 \/ el.height < 24 * 100
                 /\ \E g \in 1..Len(SelectorGroups(dc_fn)) :
                       LET grp == SelectorGroups(dc_fn)[g]
                       IN  /\ \E s \in 1..Len(grp.selectors) : grp.selectors[s] \in el.matches
                           /\ grp.group = "chip" /\ dc_fn = "collect_samples" => el.chip_like)
                => \E o \in 1..Len(dc_out) :
                      /\ dc_out[o].text = text
                      /\ dc_out[o].width = el.width
                      /\ dc_out[o].height = el.height
(***************************************************************************)
(* NetworkLogger: attach, on_request, on_response.  A request object has    *)
(* an identity id(request), unique among the objects alive at one time; a   *)
(* discarded object's identity may be given to a later object.  Each        *)
(* request of the model has a URL of its own, its number.                   *)
(***************************************************************************)
PageTags == {"home", "nav"}
ResponseStatuses == {"200", "404"}
ContentTypes == {"", "font/woff2"}

\* NetworkEntry(url=..., status=None, content_type=None, page_tag=...), lines 387-401
NetworkEntry(url, page_tag) ==
    [url |-> url, status |-> "None", content_type |-> "None", page_tag |-> page_tag]

\* NetworkLogger.__init__, lines 381-384
NetInit ==
    /\ nl_entries = <<>>
    /\ nl_request_map = <<>>
    /\ nl_attached = {}
    /\ nl_objects = {}
    /\ nl_made = 0
    /\ nl_event = [kind |-> "none", request |-> 0]

NetIdle ==
    /\ nl_entries = <<>>
    /\ nl_request_map = <<>>
    /\ nl_attached = {}
    /\ nl_objects = {}
    /\ nl_made = 0
    /\ nl_event = [kind |-> "idle", request |-> 0]

\* The identities no living request object has.
FreeIds == (1..NumObjectIds) \ {o.id : o \in nl_objects}

\* attach(page, page_tag, ...): page.on("request", ...); page.on("response", ...)
Attach ==
    /\ \E tag \in PageTags \ nl_attached : nl_attached' = nl_attached \cup {tag}
    /\ nl_event' = [kind |-> "attach", request |-> 0]
    /\ UNCHANGED <<nl_entries, nl_request_map, nl_objects, nl_made>>
    /\ OutsideNet

\* on_request(request), lines 386-403, for a new request object of an
\* attached page
OnRequest ==
    /\ nl_made < MaxNetRequests
    /\ \E tag \in nl_attached, id \in FreeIds :
          /\ nl_objects' = nl_objects \cup {[request |-> nl_made + 1, id |-> id]}
          /\ nl_entries' = Append(nl_entries, NetworkEntry(nl_made + 1, tag))
          /\ nl_request_map' =
                [k \in DOMAIN nl_request_map \cup {id} |->
                    IF k = id THEN Len(nl_entries) ELSE nl_request_map[k]]
    /\ nl_made' = nl_made + 1
    /\ nl_event' = [kind |-> "request", request |-> nl_made + 1]
    /\ UNCHANGED nl_attached
    /\ OutsideNet

\* A request object of an attached page comes to be without a request event
\* reaching on_request: its request was never logged.
RequestUnseen ==
    /\ nl_made < MaxNetRequests
    /\ nl_attached # {}
    /\ \E id \in FreeIds :
          nl_objects' = nl_objects \cup {[request |-> nl_made + 1, id |-> id]}
    /\ nl_made' = nl_made + 1
    /\ nl_event' = [kind |-> "unseen", request |-> nl_made + 1]
    /\ UNCHANGED <<nl_entries, nl_request_map, nl_attached>>
    /\ OutsideNet

\* on_response(response), lines 405-411: response.request is a living object
OnResponse ==
    /\ \E o \in nl_objects, status \in ResponseStatuses, content_type \in ContentTypes :
          /\ nl_event' = [kind |-> "response", request |-> o.request]
          /\ IF o.id \notin DOMAIN nl_request_map
             THEN UNCHANGED nl_entries
             ELSE nl_entries' =
                    [nl_entries EXCEPT ![nl_request_map[o.id] + 1].status = status,
                                       ![nl_request_map[o.id] + 1].content_type = content_type]
    /\ UNCHANGED <<nl_request_map, nl_attached, nl_objects, nl_made>>
    /\ OutsideNet

\* A request object is discarded; _request_map keeps the int id(request) gave
\* (line 403), not the object.
Discard ==
    /\ \E o \in nl_objects : nl_objects' = nl_objects \ {o}
    /\ nl_event' = [kind |-> "discard", request |-> 0]
    /\ UNCHANGED <<nl_entries, nl_request_map, nl_attached, nl_made>>
    /\ OutsideNet

NetNext ==
    \/ Attach
    \/ OnRequest
    \/ RequestUnseen
    \/ OnResponse
    \/ Discard

\* C29: for any interleaving of request and response events, request objects
\* being discarded and their identity reused, NetworkLogger only appends
\* entries, never removes or reorders them, and a response event sets status
\* and content_type only on the entry appended for that response's own
\* request; a response whose request was never logged changes nothing.
C29_OwnEntryOnly ==
    [][/\ Len(nl_entries') >= Len(nl_entries)
       /\ Len(nl_entries') > Len(nl_entries) =>
             /\ nl_event'.kind = "request"
             /\ nl_entries' = Append(nl_entries, nl_entries'[Len(nl_entries')])
       /\ \A i \in 1..Len(nl_entries) :
             /\ nl_entries'[i].url = nl_entries[i].url
             /\ nl_entries'[i].page_tag = nl_entries[i].page_tag
             /\ nl_entries'[i] # nl_entries[i] =>
                   /\ nl_event'.kind = "response"
                   /\ nl_entries[i].url = nl_event'.request
      ]_vars

(***************************************************************************)
(* Specifications                                                          *)
(***************************************************************************)
SplitSpecInit == SplitInit /\ DiffIdle /\ StatesIdle /\ CollectIdle /\ FontIdle /\ AccIdle /\ ScoreIdle /\ ClusterIdle /\ ParseIdle /\ DiscoverIdle /\ NetIdle
SplitSpec == SplitSpecInit /\ [][SplitNext]_vars

DiffSpecInit == DiffInit /\ SplitIdle /\ StatesIdle /\ CollectIdle /\ FontIdle /\ AccIdle /\ ScoreIdle /\ ClusterIdle /\ ParseIdle /\ DiscoverIdle /\ NetIdle
DiffSpec == DiffSpecInit /\ [][DiffNext]_vars

StatesSpecInit == StatesInit /\ SplitIdle /\ DiffIdle /\ CollectIdle /\ FontIdle /\ AccIdle /\ ScoreIdle /\ ClusterIdle /\ ParseIdle /\ DiscoverIdle /\ NetIdle
StatesSpec == StatesSpecInit /\ [][StatesNext]_vars

CollectSpecInit == CollectInit /\ SplitIdle /\ DiffIdle /\ StatesIdle /\ FontIdle /\ AccIdle /\ ScoreIdle /\ ClusterIdle /\ ParseIdle /\ DiscoverIdle /\ NetIdle
CollectSpec == CollectSpecInit /\ [][CollectNext]_vars

FontSpecInit == FontInit /\ SplitIdle /\ DiffIdle /\ StatesIdle /\ CollectIdle /\ AccIdle /\ ScoreIdle /\ ClusterIdle /\ ParseIdle /\ DiscoverIdle /\ NetIdle
FontSpec == FontSpecInit /\ [][FontNext]_vars

AccSpecInit == AccInit /\ SplitIdle /\ DiffIdle /\ StatesIdle /\ CollectIdle /\ FontIdle /\ ScoreIdle /\ ClusterIdle /\ ParseIdle /\ DiscoverIdle /\ NetIdle
AccSpec == AccSpecInit /\ [][AccNext]_vars

ScoreSpecInit == ScoreInit /\ SplitIdle /\ DiffIdle /\ StatesIdle /\ CollectIdle /\ FontIdle /\ AccIdle /\ ClusterIdle /\ ParseIdle /\ DiscoverIdle /\ NetIdle
ScoreSpec == ScoreSpecInit /\ [][ScoreNext]_vars

ClusterSpecInit == ClusterInit /\ SplitIdle /\ DiffIdle /\ StatesIdle /\ CollectIdle /\ FontIdle /\ AccIdle /\ ScoreIdle /\ ParseIdle /\ DiscoverIdle /\ NetIdle
ClusterSpec == ClusterSpecInit /\ [][ClusterNext]_vars

ParseSpecInit == ParseInit /\ SplitIdle /\ DiffIdle /\ StatesIdle /\ CollectIdle /\ FontIdle /\ AccIdle /\ ScoreIdle /\ ClusterIdle /\ DiscoverIdle /\ NetIdle
ParseSpec == ParseSpecInit /\ [][ParseNext]_vars

DiscoverSpecInit == DiscoverInit /\ SplitIdle /\ DiffIdle /\ StatesIdle /\ CollectIdle /\ FontIdle /\ AccIdle /\ ScoreIdle /\ ClusterIdle /\ ParseIdle /\ NetIdle
DiscoverSpec == DiscoverSpecInit /\ [][DiscoverNext]_vars

NetSpecInit == NetInit /\ SplitIdle /\ DiffIdle /\ StatesIdle /\ CollectIdle /\ FontIdle /\ AccIdle /\ ScoreIdle /\ ClusterIdle /\ ParseIdle /\ DiscoverIdle
NetSpec == NetSpecInit /\ [][NetNext]_vars

=============================================================================
